---- MODULE Spec2Model ----
(***************************************************************************)
(* State-machine model of the XYStage stepper-axis controllers.            *)
(*                                                                         *)
(*   ax  : the PWM-driven, free-running axis   (src/app.py,     Stepper)   *)
(*   tx  : the timer-driven, tracking axis     (src/xystage.py, Stepper    *)
(*         and StepperHex, which share the control logic)                  *)
(*                                                                         *)
(* Every method of a class is a pure operator from the object (a record    *)
(* of its fields and of the pins it drives) to the object after the call.  *)
(* The actions apply the operators; the host-loop tick context and the     *)
(* interrupt context (end-stop edge, step timer) are separate actions.     *)
(***************************************************************************)
EXTENDS Integers, FiniteSets, Sequences, TLC

VARIABLES
    ax,          \* app.py Stepper object: fields, pins and PWM channel
    stop_pin,    \* level of the end-stop input of ax (0 = switch closed)
    irq_pending, \* a falling edge of stop_pin is waiting for its handler
    pc,          \* position of the tick context inside get_pos
    gp_steps,    \* get_pos: local variable steps
    gp_tmp,      \* get_pos: value of self._pos loaded by "self._pos += steps"
    gp_irq,      \* get_pos: a calibrating end-stop trigger arrived during this call
    ret,         \* the last tick-context operation was speed() and it returned True
    ramp,        \* number of consecutive speed(max_sps) calls made from rest, -1 when not counting
    tx,          \* xystage.py Stepper object: fields, pins and timer
    t_stop_pin,  \* level of the end-stop input of tx (0 = switch closed)
    t_irq,       \* a falling edge of t_stop_pin is waiting for its handler
    t_last,      \* "away": the last step of tx was an end-stop handler that found the
                 \* calibrated axis moving away from the stop; "stepped": it was a tracking
                 \* callback that made a full, unclamped step; "none" otherwise
    app,         \* app.py XYStageApp object: screen state, installed axes, idle timer
    hx,          \* hexdrive.py HexDriveApp object: fields, PWM duties, power switch
    xs,          \* xystage.py XYStageApp object: screen state, installed axes, idle timer
    ty           \* xystage.py StepperHex object (Y axis): fields, timer, actuator phase

avars == <<ax, stop_pin, irq_pending, pc, gp_steps, gp_tmp, gp_irq, ret, ramp>>

tvars == <<tx, t_stop_pin, t_irq, t_last>>

uvars == <<app>>

hvars == <<hx, xs, ty>>

vars == <<avars, tvars, uvars, hvars>>

----------------------------------------------------------------------------
(* Bounds of the model *)

\* max_sps given to the constructor (settings 'max_speed', 10..100000)
MaxSps == 3200
\* max_pos given to the constructor (settings 'XRange' / 'YRange', 10..100000)
MaxPos == 3
\* largest tick delta (ms) handed to get_pos
MaxDelta == 1
\* how far beyond [0, max_pos] the model follows the position
PosCap == 2

\* longest run of speed(max_sps) calls that is counted
MaxRamp == 12

Deltas == 0..MaxDelta

\* requested speeds: beyond the limit, at the limit, within one acceleration step of rest, zero
Requests == {-(MaxSps + 1), -(MaxSps \div 20), 0, MaxSps \div 20, MaxSps, MaxSps + 1}

\* outcomes of a PWM driver call: TRUE = accepted
DriverOutcomes == {TRUE}

\* POSITION_MATCH_TOLERANCE
POSITION_MATCH_TOLERANCE == 20

Least(x, y) == IF x < y THEN x ELSE y

Abs(x) == IF x < 0 THEN -x ELSE x

----------------------------------------------------------------------------
(* src/app.py  class Stepper *)

\* Stepper.__init__: has_settings records whether "self._settings" resolves on
\* the object; __init__ stores the container only, so the lookup raises
\* AttributeError on every object the program constructs.
StepperInit(reverse, max_sps, max_pos, has_settings) ==
    [ has_settings     |-> has_settings,
      calibrated       |-> FALSE,
      timer_is_running |-> FALSE,
      timer_mode       |-> 0,
      pos              |-> 0,
      free_run_mode    |-> 1,
      enabled          |-> FALSE,
      reverse          |-> reverse,
      max_sps_change   |-> max_sps \div 10,
      max_sps          |-> max_sps,
      steps_per_sec    |-> 0,
      max_pos          |-> max_pos,
      freq             |-> 0,
      en               |-> 1,       \* pins["en"].on(): active low, driver off
      dir              |-> 0,       \* pins["dir"].off()
      pwm_duty         |-> 2000,    \* PWM(step, freq=10, duty_ns=2000)
      has_pwm          |-> TRUE ]   \* self._pwm exists

\* Stepper.__init__ when PWM(...) raises: lines 723-724 print and go on, the
\* object is returned without its _pwm attribute
StepperInitNoPwm(reverse, max_sps, max_pos, has_settings) ==
    [StepperInit(reverse, max_sps, max_pos, has_settings) EXCEPT !.pwm_duty = 0, !.has_pwm = FALSE]

\* Stepper._update_timer(freq); hw = the PWM driver accepts the new frequency.
\* The non-zero branch runs inside try/except: the logging lookup on its first
\* line raises when has_settings is false, and the handler only prints.
update_timer(a, freq, hw) ==
    IF freq = 0
    THEN IF a.has_pwm /\ hw
         THEN [a EXCEPT !.en = 1, !.pwm_duty = 0, !.freq = 0]
         ELSE [a EXCEPT !.en = 1]
    ELSE IF freq # a.freq \/ a.free_run_mode # a.timer_mode
    THEN IF ~a.has_settings
         THEN a
         ELSE IF a.free_run_mode > 0
         THEN IF hw /\ a.has_pwm
              THEN [a EXCEPT !.dir = IF a.reverse THEN 1 ELSE 0,
                             !.pwm_duty = 2000, !.en = 0,
                             !.freq = freq, !.timer_is_running = TRUE,
                             !.timer_mode = a.free_run_mode]
              ELSE [a EXCEPT !.dir = IF a.reverse THEN 1 ELSE 0]
         ELSE IF a.free_run_mode < 0
         THEN IF hw /\ a.has_pwm
              THEN [a EXCEPT !.dir = IF a.reverse THEN 0 ELSE 1,
                             !.pwm_duty = 2000, !.en = 0,
                             !.freq = freq, !.timer_is_running = TRUE,
                             !.timer_mode = a.free_run_mode]
              ELSE [a EXCEPT !.dir = IF a.reverse THEN 0 ELSE 1]
         ELSE IF a.has_pwm
         THEN [a EXCEPT !.en = 1, !.pwm_duty = 0,
                        !.freq = freq, !.timer_is_running = TRUE,
                        !.timer_mode = a.free_run_mode]
         ELSE [a EXCEPT !.en = 1]
    ELSE a

\* Stepper._update_timer, lines 803-806: the freq == 0 branch is outside the
\* try, so a missing _pwm attribute or a PWM call that raises is an exception
\* for the caller
update_timer_raises(a, freq, hw) == freq = 0 /\ (~a.has_pwm \/ ~hw)

\* Stepper._update_timer: the call reaches the PWM driver
update_timer_calls_driver(a, freq) ==
    \/ freq = 0
    \/ (freq # a.freq \/ a.free_run_mode # a.timer_mode) /\ a.has_settings

\* Stepper.speed, lines 727-730: the free-run direction follows the sign of the request
speed_mode(a, sps) ==
    IF a.free_run_mode = 1 /\ sps < 0 THEN -1
    ELSE IF a.free_run_mode = -1 /\ sps > 0 THEN 1
    ELSE a.free_run_mode

\* the acceleration limiter without its deceleration branch
accel_limit_no_decel(a, sps) ==
    IF sps - a.steps_per_sec > a.max_sps_change
    THEN a.steps_per_sec + a.max_sps_change
    ELSE sps

\* the acceleration limiter without its acceleration branch
accel_limit_no_accel(a, sps) ==
    IF sps - a.steps_per_sec < -a.max_sps_change
    THEN a.steps_per_sec - a.max_sps_change
    ELSE sps

\* Stepper.speed: the acceleration limiter (lines 742-747 and 758-763)
accel_limit(a, sps) ==
    IF sps - a.steps_per_sec > a.max_sps_change
    THEN a.steps_per_sec + a.max_sps_change
    ELSE IF sps - a.steps_per_sec < -a.max_sps_change
    THEN a.steps_per_sec - a.max_sps_change
    ELSE sps

\* speed_change_limited set by the acceleration branch only
accel_limited_up_only(a, sps) ==
    sps - a.steps_per_sec > a.max_sps_change

\* Stepper.speed: the acceleration limiter changed the value (speed_change_limited)
accel_limited(a, sps) ==
    \/ sps - a.steps_per_sec > a.max_sps_change
    \/ sps - a.steps_per_sec < -a.max_sps_change

\* Stepper.speed: the request is overridden by a limit (lines 733-735, 749-751);
\* stopv is the value read from pins["stop"]
at_limit(a, sps, stopv) ==
    IF sps > 0
    THEN a.calibrated /\ a.pos >= a.max_pos
    ELSE stopv = 0 \/ (a.calibrated /\ a.pos <= 0)

\* the max-speed clamp without its negative side
speed_clamp_positive_only(a, sps) ==
    IF sps > a.max_sps THEN a.max_sps ELSE sps

\* Stepper.speed: the request after the max-speed clamp (lines 737-739, 753-755)
speed_clamp(a, sps) ==
    IF sps > 0
    THEN IF sps > a.max_sps THEN a.max_sps ELSE sps
    ELSE IF sps < -a.max_sps THEN -a.max_sps ELSE sps

\* Stepper.speed: the value stored in _steps_per_sec
speed_sps(a, sps, stopv) ==
    IF at_limit(a, sps, stopv) THEN 0 ELSE accel_limit(a, speed_clamp(a, sps))

\* Stepper.speed: the value returned
speed_ret(a, sps, stopv) ==
    IF at_limit(a, sps, stopv) THEN FALSE ELSE accel_limited(a, speed_clamp(a, sps))

\* Stepper.speed: the object after the call
speed(a, sps, stopv, hw) ==
    LET s == speed_sps(a, sps, stopv)
        b == [a EXCEPT !.free_run_mode = speed_mode(a, sps), !.steps_per_sec = s]
    IN  update_timer(b, Abs(s), hw)

\* Stepper.speed: the object at the call of _update_timer (line 765)
speed_before_update(a, sps, stopv) ==
    [a EXCEPT !.free_run_mode = speed_mode(a, sps), !.steps_per_sec = speed_sps(a, sps, stopv)]

\* Stepper.speed: the call ends in an exception instead of a return
speed_raises(a, sps, stopv, hw) ==
    update_timer_raises(speed_before_update(a, sps, stopv), Abs(speed_sps(a, sps, stopv)), hw)

\* Stepper.get_pos, line 773
get_pos_steps(a, delta) == (a.steps_per_sec * delta) \div 1000

\* Stepper.get_pos, lines 776-784: the software end stops; the logging lookup
\* in front of each speed(0) raises when has_settings is false
get_pos_check(a, stopv, hw) ==
    IF a.calibrated
    THEN IF a.pos < 0 /\ a.steps_per_sec < 0
         THEN IF a.has_settings THEN speed(a, 0, stopv, hw) ELSE a
         ELSE IF a.pos > a.max_pos /\ a.steps_per_sec > 0
         THEN IF a.has_settings THEN speed(a, 0, stopv, hw) ELSE a
         ELSE a
    ELSE a

\* Stepper._hit_endstop: raises at its logging lookup (line 791) when the pin
\* reads 0 and has_settings is false, before any field is written
hit_endstop(a, pinv, hw) ==
    IF pinv = 0
    THEN IF ~a.has_settings
         THEN a
         ELSE LET b == IF ~a.calibrated
                       THEN [a EXCEPT !.calibrated = TRUE, !.pos = 0]
                       ELSE a
              IN  IF b.steps_per_sec < 0 THEN speed(b, 0, pinv, hw) ELSE b
    ELSE a

\* Stepper._hit_endstop, lines 790-792: the logging lookup is outside any try
hit_endstop_raises(a, pinv) == pinv = 0 /\ ~a.has_settings

\* Stepper.get_pos, lines 776-783: the logging lookups are outside any try
get_pos_raises(a) ==
    /\ a.calibrated
    /\ (a.pos < 0 /\ a.steps_per_sec < 0) \/ (a.pos > a.max_pos /\ a.steps_per_sec > 0)
    /\ ~a.has_settings

\* Stepper.stop
stop(a) == update_timer(a, 0, TRUE)

\* Stepper.enable
enable(a, e, hw) ==
    LET b == [a EXCEPT !.enabled = e, !.en = IF e THEN 0 ELSE 1]
    IN  IF e
        THEN IF b.free_run_mode # 0 THEN update_timer(b, Abs(b.steps_per_sec), hw) ELSE b
        ELSE update_timer(b, 0, hw)

----------------------------------------------------------------------------------------------------------------------------------------------
(* src/xystage.py  class Stepper (timer driven); StepperHex repeats its logic *)

\* _STEPPER_MAX_SPEED
T_MAX_SPEED == 200
\* _STEPPER_DEFAULT_SPEED
T_DEFAULT_SPEED == 50

\* requested speeds and targets (full steps), free-run directions
TRequests == {-(T_MAX_SPEED + 1), 0, T_DEFAULT_SPEED, T_MAX_SPEED + 1}

TTargets == {-1, 0, MaxPos, MaxPos + 1}

\* Stepper._update_timer(freq); cb is the callback the running timer was given
t_update_timer(a, freq) ==
    LET b == IF a.timer_is_running /\ freq # a.freq
             THEN [a EXCEPT !.freq = 0, !.timer_is_running = FALSE, !.cb = "none"]
             ELSE a
    IN  IF freq # 0 /\ (freq # b.freq \/ b.free_run_mode # b.timer_mode)
        THEN [b EXCEPT !.cb = IF b.free_run_mode > 0 THEN "fwd"
                               ELSE IF b.free_run_mode < 0 THEN "rev" ELSE "track",
                       !.x_dir = IF b.free_run_mode > 0 THEN 0
                                  ELSE IF b.free_run_mode < 0 THEN 1 ELSE b.x_dir,
                       !.freq = freq,
                       !.min_period = (1000 \div freq) - 1,
                       !.timer_is_running = TRUE,
                       !.timer_mode = b.free_run_mode]
        ELSE IF freq = 0 THEN [b EXCEPT !.x_en = 1] ELSE b

\* the frequency every caller of _update_timer asks for
t_freq(a) == (2 \div a.step_size) * Abs(a.steps_per_sec)

\* Stepper.track_target
t_track_target(a) ==
    LET b == [a EXCEPT !.free_run_mode = 0] IN t_update_timer(b, t_freq(b))

\* Stepper.free_run
t_free_run(a, d) ==
    LET b == [a EXCEPT !.free_run_mode = d]
    IN  IF d # 0 THEN t_update_timer(b, t_freq(b)) ELSE b

\* Stepper.__init__: track_target() runs before the pins are set up
TStepperInit(step_size, sps0, max_sps, max_pos) ==
    LET a == [ calibrated       |-> FALSE,
               timer_is_running |-> FALSE,
               timer_mode       |-> 0,
               free_run_mode    |-> 0,
               enabled          |-> FALSE,
               target_pos       |-> 0,
               pos              |-> 0,
               max_sps          |-> max_sps,
               steps_per_sec    |-> sps0,
               max_pos          |-> 2 * max_pos,
               freq             |-> 0,
               min_period       |-> 0,
               step_size        |-> step_size,
               cb               |-> "none",
               x_dir            |-> 0,
               x_en             |-> 1 ]
    IN  [t_track_target(a) EXCEPT !.x_dir = 0, !.x_en = 1]

\* Stepper.step_size
t_step_size(a, sz) ==
    [a EXCEPT !.step_size = IF sz < 1 THEN 1 ELSE IF sz > 2 THEN 2 ELSE sz]

\* Stepper.speed
t_speed(a, sps) ==
    LET m == IF a.free_run_mode = 1 /\ sps < 0 THEN -1
             ELSE IF a.free_run_mode = -1 /\ sps > 0 THEN 1
             ELSE a.free_run_mode
        s == IF sps > a.max_sps THEN a.max_sps
             ELSE IF sps < -a.max_sps THEN -a.max_sps ELSE sps
        b == [a EXCEPT !.free_run_mode = m, !.steps_per_sec = s]
    IN  t_update_timer(b, t_freq(b))

\* Stepper.target
t_target(a, t) ==
    IF a.calibrated /\ t < 0 THEN [a EXCEPT !.target_pos = 0]
    ELSE IF a.calibrated /\ 2 * t > a.max_pos THEN [a EXCEPT !.target_pos = a.max_pos]
    ELSE [a EXCEPT !.target_pos = 2 * t]

\* Stepper.get_pos
t_get_pos(a) == a.pos \div 2

\* variant of overwrite_pos that also forgets the calibration
t_overwrite_pos_uncalibrates(a, p) == [a EXCEPT !.pos = 2 * p, !.calibrated = FALSE]

\* Stepper.overwrite_pos
t_overwrite_pos(a, p) == [a EXCEPT !.pos = 2 * p]

\* Stepper.step(d); too_soon = less than _min_period ms since the last step
t_step(a, d, too_soon) ==
    IF too_soon
    THEN a
    ELSE LET b == IF d > 0
                  THEN [a EXCEPT !.x_en = 0, !.x_dir = 0, !.pos = a.pos + a.step_size]
                  ELSE IF d < 0
                  THEN [a EXCEPT !.x_en = 0, !.x_dir = 1, !.pos = a.pos - a.step_size]
                  ELSE a
         IN  IF b.calibrated /\ b.pos < 0
             THEN t_speed([b EXCEPT !.pos = 0], 0)
             ELSE IF b.calibrated /\ b.pos > b.max_pos
             THEN t_speed([b EXCEPT !.pos = b.max_pos], 0)
             ELSE b

\* variant of _hit_endstop that stops the axis whatever its direction
t_hit_endstop_any_direction(a, pinv) ==
    IF pinv = 0
    THEN t_speed([a EXCEPT !.calibrated = TRUE], 0)
    ELSE a

\* Stepper._hit_endstop
t_hit_endstop(a, pinv) ==
    IF pinv = 0
    THEN LET b == IF ~a.calibrated THEN [a EXCEPT !.calibrated = TRUE] ELSE a
         IN  IF b.free_run_mode < 0
             THEN t_overwrite_pos(t_speed(b, 0), 0)
             ELSE IF b.free_run_mode = 0 /\ b.target_pos < b.pos
             THEN t_speed(b, 0)
             ELSE b
    ELSE a

\* variant of _timer_callback that steps forward whenever position and target differ
t_timer_callback_forward_only(a, too_soon) ==
    IF a.cb = "fwd" THEN t_step(a, 1, too_soon)
    ELSE IF a.cb = "rev" THEN t_step(a, -1, too_soon)
    ELSE IF a.target_pos # a.pos THEN t_step(a, 1, too_soon)
    ELSE [a EXCEPT !.x_en = 1]

\* Stepper._timer_callback_fwd, _timer_callback_rev, _timer_callback
t_timer_callback(a, too_soon) ==
    IF a.cb = "fwd" THEN t_step(a, 1, too_soon)
    ELSE IF a.cb = "rev" THEN t_step(a, -1, too_soon)
    ELSE IF a.target_pos > a.pos THEN t_step(a, 1, too_soon)
    ELSE IF a.target_pos < a.pos THEN t_step(a, -1, too_soon)
    ELSE [a EXCEPT !.x_en = 1]

\* Stepper.stop
t_stop(a) == t_update_timer(a, 0)

\* Stepper.enable
t_enable(a, e) ==
    LET b == [a EXCEPT !.enabled = e, !.x_en = IF e THEN 0 ELSE 1]
    IN  IF e
        THEN IF b.free_run_mode # 0 THEN t_update_timer(b, t_freq(b)) ELSE b
        ELSE t_update_timer(b, 0)

----------------------------------------------------------------------------
(* src/xystage.py  class StepperHex (timer driven, steps through the HexDrive app) *)

\* _STEPPER_NUM_PHASES
STEPPER_NUM_PHASES == 8

\* _YRANGE_DEFAULT and _XRANGE_DEFAULT (full steps), scaled to one _inc of level 1
YRange == 10

XRange == 10

\* StepperHex._update_timer(freq)
h_update_timer(a, freq) ==
    LET b == IF a.timer_is_running /\ freq # a.freq
             THEN [a EXCEPT !.freq = 0, !.timer_is_running = FALSE, !.cb = "none"]
             ELSE a
    IN  IF freq # 0 /\ (freq # b.freq \/ b.free_run_mode # b.timer_mode)
        THEN [b EXCEPT !.cb = IF b.free_run_mode > 0 THEN "fwd"
                               ELSE IF b.free_run_mode < 0 THEN "rev" ELSE "track",
                       !.freq = freq,
                       !.min_period = (1000 \div freq) - 1,
                       !.timer_is_running = TRUE,
                       !.timer_mode = b.free_run_mode]
        ELSE b

\* the frequency every caller of StepperHex._update_timer asks for
h_freq(a) == (2 \div a.step_size) * Abs(a.steps_per_sec)

\* StepperHex.track_target
h_track_target(a) ==
    LET b == [a EXCEPT !.free_run_mode = 0] IN h_update_timer(b, h_freq(b))

\* StepperHex.free_run
h_free_run(a, d) ==
    LET b == [a EXCEPT !.free_run_mode = d]
    IN  IF d # 0 THEN h_update_timer(b, h_freq(b)) ELSE b

\* StepperHex.__init__
HStepperInit(step_size, sps0, max_sps, max_pos) ==
    h_track_target(
        [ phase            |-> 0,
          calibrated       |-> FALSE,
          timer_is_running |-> FALSE,
          timer_mode       |-> 0,
          free_run_mode    |-> 0,
          enabled          |-> FALSE,
          target_pos       |-> 0,
          pos              |-> 0,
          max_sps          |-> max_sps,
          steps_per_sec    |-> sps0,
          max_pos          |-> 2 * max_pos,
          freq             |-> 0,
          min_period       |-> 0,
          step_size        |-> step_size,
          cb               |-> "none",
          drv_phase        |-> -1,       \* the phase the actuator last accepted, -1 = released or none
          raised           |-> FALSE ])  \* the last timer callback ended in an exception

\* StepperHex.speed
h_speed(a, sps) ==
    LET m == IF a.free_run_mode = 1 /\ sps < 0 THEN -1
             ELSE IF a.free_run_mode = -1 /\ sps > 0 THEN 1
             ELSE a.free_run_mode
        s == IF sps > a.max_sps THEN a.max_sps
             ELSE IF sps < -a.max_sps THEN -a.max_sps ELSE sps
        b == [a EXCEPT !.free_run_mode = m, !.steps_per_sec = s]
    IN  h_update_timer(b, h_freq(b))

\* StepperHex.target
h_target(a, t) ==
    IF a.calibrated /\ t < 0 THEN [a EXCEPT !.target_pos = 0]
    ELSE IF a.calibrated /\ 2 * t > a.max_pos THEN [a EXCEPT !.target_pos = a.max_pos]
    ELSE [a EXCEPT !.target_pos = 2 * t]

\* StepperHex.get_pos
h_get_pos(a) == a.pos \div 2

\* StepperHex.overwrite_pos
h_overwrite_pos(a, p) == [a EXCEPT !.pos = 2 * p]

\* StepperHex.step(d); too_soon = less than _min_period ms since the last step,
\* ok = motor_step(phase) of the HexDrive app returns instead of raising
h_step(a, d, too_soon, ok) ==
    IF too_soon
    THEN a
    ELSE LET b == IF d > 0
                  THEN [a EXCEPT !.pos = a.pos + a.step_size,
                                 !.phase = (a.phase + a.step_size) % STEPPER_NUM_PHASES]
                  ELSE IF d < 0
                  THEN [a EXCEPT !.pos = a.pos - a.step_size,
                                 !.phase = (a.phase - a.step_size) % STEPPER_NUM_PHASES]
                  ELSE a
         IN  IF b.calibrated /\ b.pos < 0
             THEN h_speed([b EXCEPT !.pos = 0], 0)
             ELSE IF b.calibrated /\ b.pos > b.max_pos
             THEN h_speed([b EXCEPT !.pos = b.max_pos], 0)
             ELSE IF ok THEN [b EXCEPT !.drv_phase = b.phase]
             ELSE b

\* StepperHex._hit_endstop
h_hit_endstop(a, pinv) ==
    IF pinv = 0
    THEN LET b == IF ~a.calibrated THEN [a EXCEPT !.calibrated = TRUE] ELSE a
         IN  IF b.free_run_mode < 0
             THEN h_overwrite_pos(h_speed(b, 0), 0)
             ELSE IF b.free_run_mode = 0 /\ b.target_pos < b.pos
             THEN h_speed(b, 0)
             ELSE b
    ELSE a

\* StepperHex._timer_callback_fwd, _timer_callback_rev, _timer_callback: the
\* motor_release() of the last branch is outside any try
h_timer_callback(a, too_soon, ok) ==
    IF a.cb = "fwd" THEN h_step(a, 1, too_soon, ok)
    ELSE IF a.cb = "rev" THEN h_step(a, -1, too_soon, ok)
    ELSE IF a.target_pos > a.pos THEN h_step(a, 1, too_soon, ok)
    ELSE IF a.target_pos < a.pos THEN h_step(a, -1, too_soon, ok)
    ELSE IF ok THEN [a EXCEPT !.drv_phase = -1]
    ELSE [a EXCEPT !.raised = TRUE]

\* StepperHex.stop
h_stop(a, ok) ==
    LET b == h_update_timer(a, 0)
    IN  IF ok THEN [b EXCEPT !.drv_phase = -1] ELSE b

\* StepperHex.enable: every actuator call is inside the try
h_enable(a, e, ok) ==
    LET b == [a EXCEPT !.enabled = e]
    IN  IF e
        THEN LET c == IF b.free_run_mode # 0 THEN h_update_timer(b, h_freq(b)) ELSE b
             IN  IF ok THEN [c EXCEPT !.drv_phase = c.phase] ELSE c
        ELSE LET c == h_update_timer(b, 0)
             IN  IF ok THEN [c EXCEPT !.drv_phase = -1] ELSE c

\* XYStageApp._main_menu_select_handler, lines 581-586
HStepperAtMidRange ==
    LET a == h_overwrite_pos(HStepperInit(1, T_DEFAULT_SPEED, T_MAX_SPEED, YRange), YRange \div 2)
    IN  h_target(a, h_get_pos(a))

\* XYStageApp.__init__ of xystage.py: STATE_INIT, no axis, no HexDrive
XAppInit ==
    [ current_state         |-> "init",
      hexdrive_port         |-> "none",
      hexdrive_app          |-> "none",
      stepperX              |-> "none",
      stepperY              |-> "none",
      time_since_last_input |-> 0,
      notification          |-> "none" ]

----------------------------------------------------------------------------
(* src/hexdrive.py  class HexDriveApp *)

\* keep_alive_period (ms), _DEFAULT_KEEP_ALIVE_PERIOD scaled to the tick deltas of the model
KeepAlive == 2

\* PWM duties the model follows (0..65535 in the source): off and on
Duties == {0, 1}

\* the argument of set_pwm: one duty per output
PwmVectors == [1..4 -> Duties]

AllOff == [i \in 1..4 |-> 0]

\* which duty_u16(pwm) call the PWM driver rejects: 0 = none, i = the call for output i
PwmFailures == {0, 3}

\* the object before its constructor runs; pdp: the attribute power_detect_pin
\* that set_power reads exists (__init__ assigns power_detect, line 29)
HexNew(pdp) ==
    [ status                 |-> "absent",   \* absent, running, or raised (the constructor raised)
      has_power_detect_pin   |-> pdp,
      config                 |-> FALSE,
      keep_alive_period      |-> KeepAlive,
      power_state            |-> "None",
      pwm_setup_failed       |-> TRUE,
      outputs_energised      |-> FALSE,
      has_time_since_last_update |-> FALSE,  \* the attribute exists (first assigned by set_pwm, line 133)
      time_since_last_update |-> 0,
      pwm_allocated          |-> FALSE,       \* PWMOutput holds four PWM objects
      duty                   |-> AllOff,
      power_control          |-> 0,
      raised                 |-> FALSE,       \* the last operation ended in an exception
      acc                    |-> 0 ]          \* time given to background_update since the last set_pwm

\* HexDriveApp.set_power; detect = _get_pin_state of the power-detect pin is true
hex_set_power(h, state, detect) ==
    IF ~h.config \/ state = h.power_state
    THEN h
    ELSE IF ~h.has_power_detect_pin
    THEN [h EXCEPT !.raised = TRUE]
    ELSE [h EXCEPT !.power_control = IF detect THEN (IF state = "On" THEN 1 ELSE 0) ELSE @,
                   !.power_state = state]

\* HexDriveApp.initialise; n_ok = how many of the four PWM allocations succeed
hex_initialise(h, n_ok, detect) ==
    IF ~h.config
    THEN h
    ELSE LET p == hex_set_power(h, "Off", detect)
         IN  IF p.raised THEN p
             ELSE IF n_ok < 4 THEN [p EXCEPT !.duty = AllOff]
             ELSE [p EXCEPT !.duty = AllOff, !.pwm_allocated = TRUE, !.pwm_setup_failed = FALSE]

\* HexDriveApp.__init__: line 28 reads self.config.pin, which raises when config is None
hex_construct(h, cfg, n_ok, detect) ==
    IF ~cfg
    THEN [h EXCEPT !.status = "raised", !.raised = TRUE]
    ELSE LET i == hex_initialise([h EXCEPT !.config = TRUE], n_ok, detect)
         IN  [i EXCEPT !.status = IF i.raised THEN "raised" ELSE "running"]

\* HexDriveApp.set_pwm; fail = the duty_u16(pwm) call that the driver rejects
hex_set_pwm(h, pwms, fail) ==
    IF h.pwm_setup_failed
    THEN h
    ELSE LET h1 == [h EXCEPT !.has_time_since_last_update = TRUE,
                             !.time_since_last_update = 0,
                             !.outputs_energised = (\E i \in 1..4 : pwms[i] # 0)]
             stop_at == IF fail \in 1..4 /\ pwms[fail] # h.duty[fail] THEN fail ELSE 5
         IN  IF ~h.pwm_allocated
             THEN [h1 EXCEPT !.raised = TRUE]
             ELSE [h1 EXCEPT !.duty = [i \in 1..4 |-> IF i < stop_at THEN pwms[i] ELSE h.duty[i]]]

\* HexDriveApp.set_pwm: the value returned
hex_set_pwm_ret(h, pwms, fail) ==
    /\ ~h.pwm_setup_failed
    /\ ~(fail \in 1..4 /\ pwms[fail] # h.duty[fail])

\* HexDriveApp.background_update
hex_background_update(h, delta, fail) ==
    IF ~h.config \/ h.pwm_setup_failed
    THEN h
    ELSE IF ~h.has_time_since_last_update
    THEN [h EXCEPT !.raised = TRUE]
    ELSE LET t == h.time_since_last_update + delta
         IN  IF t > h.keep_alive_period
             THEN LET z == hex_set_pwm([h EXCEPT !.time_since_last_update = t], AllOff, fail)
                  IN  IF z.raised THEN z
                      ELSE [z EXCEPT !.time_since_last_update = 0, !.outputs_energised = FALSE]
             ELSE [h EXCEPT !.time_since_last_update = t]

\* HexDriveApp.set_keep_alive
hex_set_keep_alive(h, period) == [h EXCEPT !.keep_alive_period = period]

\* HexDriveApp.deinitialise (from _handle_stop_app): pwm.deinit() of a PWMOutput
\* entry that was never allocated raises
hex_deinitialise(h, detect) ==
    IF ~h.pwm_allocated
    THEN [h EXCEPT !.raised = TRUE]
    ELSE hex_set_power([h EXCEPT !.pwm_allocated = FALSE, !.duty = AllOff], "Off", detect)

----------
(* The axis of xystage.py driven by the host loop, its step timer and the   *)
(* end-stop interrupt                                                      *)

\* XYStageApp._main_menu_select_handler, lines 567-572: the axis is constructed
\* and placed at mid range, the last known position of a new session
InitT ==
    /\ tx = LET a == t_overwrite_pos(TStepperInit(1, T_DEFAULT_SPEED, T_MAX_SPEED, MaxPos),
                                     MaxPos \div 2)
            IN  t_target(a, t_get_pos(a))
    /\ t_stop_pin = 1
    /\ t_irq = FALSE
    /\ t_last = "none"

\* tick context; an end-stop edge is served where it is raised, before the
\* tick context or the step timer goes on
TSpeed(sps) ==
    /\ ~t_irq
    /\ tx' = t_speed(tx, sps)
    /\ t_last' = "none"
    /\ UNCHANGED <<t_stop_pin, t_irq, avars, uvars, hvars>>

TTarget(t) ==
    /\ ~t_irq
    /\ tx' = t_target(tx, t)
    /\ t_last' = "none"
    /\ UNCHANGED <<t_stop_pin, t_irq, avars, uvars, hvars>>

TFreeRun(d) ==
    /\ ~t_irq
    /\ tx' = t_free_run(tx, d)
    /\ t_last' = "none"
    /\ UNCHANGED <<t_stop_pin, t_irq, avars, uvars, hvars>>

TTrackTarget ==
    /\ ~t_irq
    /\ tx' = t_track_target(tx)
    /\ t_last' = "none"
    /\ UNCHANGED <<t_stop_pin, t_irq, avars, uvars, hvars>>

TStepSize(sz) ==
    /\ ~t_irq
    /\ tx' = t_step_size(tx, sz)
    /\ t_last' = "none"
    /\ UNCHANGED <<t_stop_pin, t_irq, avars, uvars, hvars>>

TEnable(e) ==
    /\ ~t_irq
    /\ tx' = t_enable(tx, e)
    /\ t_last' = "none"
    /\ UNCHANGED <<t_stop_pin, t_irq, avars, uvars, hvars>>

TStop ==
    /\ ~t_irq
    /\ tx' = t_stop(tx)
    /\ t_last' = "none"
    /\ UNCHANGED <<t_stop_pin, t_irq, avars, uvars, hvars>>

\* environment: the end-stop switch closes or opens
TStopPin(v) ==
    /\ v # t_stop_pin
    /\ t_stop_pin' = v
    /\ t_irq' = (t_irq \/ v = 0)
    /\ t_last' = "none"
    /\ UNCHANGED <<tx, avars, uvars, hvars>>

\* what an end-stop handler finds: the pin level, the calibration and the
\* direction in which the step clock is moving the axis
t_hit_case(a, pinv) ==
    IF pinv # 0 THEN "false alarm"
    ELSE IF ~a.calibrated THEN "uncalibrated"
    ELSE IF ~a.timer_is_running THEN "at rest"
    ELSE IF (a.cb = "rev" /\ a.free_run_mode < 0)
            \/ (a.cb = "track" /\ a.free_run_mode = 0 /\ a.target_pos < a.pos)
    THEN "toward"
    ELSE IF (a.cb = "fwd" /\ a.free_run_mode > 0)
            \/ (a.cb = "track" /\ a.free_run_mode = 0 /\ a.target_pos > a.pos)
    THEN "away"
    ELSE "other"

\* interrupt context: _hit_endstop(pin)
THitEndstop ==
    /\ t_irq
    /\ t_irq' = FALSE
    /\ tx' = t_hit_endstop(tx, t_stop_pin)
    /\ t_last' = IF t_hit_case(tx, t_stop_pin) = "away" THEN "away" ELSE "none"
    /\ UNCHANGED <<t_stop_pin, avars, uvars, hvars>>

\* interrupt context: the step timer fires
\* what a step-clock callback finds: the installed callback, target against
\* position, the minimum step period and the software end stops of step()
t_cb_case(a, too_soon) ==
    IF a.cb # "track" THEN "free run"
    ELSE IF a.target_pos = a.pos THEN "at target"
    ELSE IF too_soon THEN "suppressed"
    ELSE LET p == IF a.target_pos > a.pos THEN a.pos + a.step_size ELSE a.pos - a.step_size
         IN  IF a.calibrated /\ (p < 0 \/ p > a.max_pos) THEN "clamped" ELSE "stepped"

TTimer(too_soon) ==
    /\ ~t_irq
    /\ tx.timer_is_running
    /\ too_soon => tx.min_period > 0
    /\ t_timer_callback(tx, too_soon).pos \in (0 - 2 * PosCap)..(tx.max_pos + 2 * PosCap)
    /\ tx' = t_timer_callback(tx, too_soon)
    /\ t_last' = IF t_cb_case(tx, too_soon) = "stepped" THEN "stepped" ELSE "none"
    /\ UNCHANGED <<t_stop_pin, t_irq, avars, uvars, hvars>>

NextT ==
    \/ \E sps \in TRequests : TSpeed(sps)
    \/ \E t \in TTargets : TTarget(t)
    \/ \E d \in {-1, 0, 1} : TFreeRun(d)
    \/ TTrackTarget
    \/ \E sz \in {0, 1, 2, 3} : TStepSize(sz)
    \/ \E e \in BOOLEAN : TEnable(e)
    \/ TStop
    \/ \E v \in {0, 1} : TStopPin(v)
    \/ THitEndstop
    \/ \E too_soon \in BOOLEAN : TTimer(too_soon)

----------------------------------------------------------------------------
(* The axis of app.py driven by the host loop and by the end-stop interrupt *)

\* XYStageApp.__init__: STATE_INIT, no axis and no HexDrive port yet
AppInit ==
    [ current_state         |-> "init",
      hexdrive_port         |-> "none",
      stepperX              |-> "none",
      stepperY              |-> "none",
      time_since_last_input |-> 0,
      refresh               |-> TRUE,
      notification          |-> "none",
      idle                  |-> 0,        \* tick time since the XY-stage screen last saw a button
      confirm               |-> FALSE,    \* button_states holds CONFIRM
      current_menu          |-> "none",   \* name handed to the last set_menu (None at first)
      menu                  |-> "none",   \* select handler of the Menu object in self.menu
      edit_setting_value    |-> 0,        \* value shown by the setting-edit state
      auto_repeat           |-> 0,        \* _auto_repeat: ms since the last accepted repeat
      auto_repeat_count     |-> 0,
      auto_repeat_level     |-> 0,
      auto_repeat_ret       |-> FALSE,    \* value returned by the last _auto_repeat_check
      rep_last              |-> "none",   \* last auto-repeat call: clear, first check after it, check
      rep_speed_up          |-> FALSE,    \* some _auto_repeat_check had speed_up = True
      raised                |-> FALSE ]   \* the last update() ended in an exception

InitAxObjects(reverse, has_settings) ==
    /\ ax = StepperInit(reverse, MaxSps, MaxPos, has_settings)
    /\ stop_pin = 1
    /\ irq_pending = FALSE
    /\ pc = "idle"
    /\ gp_steps = 0
    /\ gp_tmp = 0
    /\ gp_irq = FALSE
    /\ ret = FALSE
    /\ ramp = -1
    /\ InitT
    /\ app = AppInit

\* the axis objects next to a drive-output app that has not been constructed
InitAx(reverse, has_settings) ==
    /\ InitAxObjects(reverse, has_settings)
    /\ hx = HexNew(FALSE)
    /\ xs = XAppInit
    /\ ty = HStepperAtMidRange

\* the count of speed(max_sps) calls made in a row by an axis that started at
\* rest and away from its limit
ramp_next(a, sps, stopv, n) ==
    IF sps = a.max_sps /\ ~at_limit(a, sps, stopv)
    THEN IF n = -1
         THEN IF a.steps_per_sec = 0 THEN 1 ELSE -1
         ELSE IF n < MaxRamp THEN n + 1 ELSE -1
    ELSE -1

\* tick context: speed(sps); an end-stop edge is served where it is raised,
\* before the tick context goes on
Speed(sps, hw) ==
    /\ ~irq_pending
    /\ pc = "idle"
    /\ ax' = speed(ax, sps, stop_pin, hw)
    /\ ret' = (speed_ret(ax, sps, stop_pin) /\ ~speed_raises(ax, sps, stop_pin, hw))
    /\ ramp' = ramp_next(ax, sps, stop_pin, ramp)
    /\ gp_irq' = FALSE
    /\ UNCHANGED <<stop_pin, irq_pending, pc, gp_steps, gp_tmp, tvars, uvars, hvars>>

\* tick context: get_pos(delta), line 773
GetPosBegin(delta) ==
    /\ ~irq_pending
    /\ pc = "idle"
    /\ ax.pos + get_pos_steps(ax, delta) \in (0 - PosCap)..(ax.max_pos + PosCap)
    /\ pc' = "load"
    /\ gp_steps' = get_pos_steps(ax, delta)
    /\ gp_irq' = FALSE
    /\ ret' = FALSE
    /\ ramp' = -1
    /\ UNCHANGED <<ax, stop_pin, irq_pending, gp_tmp, tvars, uvars, hvars>>

\* tick context: get_pos, line 774, the load of self._pos
GetPosLoad ==
    /\ ~irq_pending
    /\ pc = "load"
    /\ pc' = "store"
    /\ gp_tmp' = ax.pos
    /\ UNCHANGED <<ax, stop_pin, irq_pending, gp_steps, gp_irq, ret, ramp, tvars, uvars, hvars>>

\* tick context: get_pos, line 774, the store to self._pos
GetPosStore ==
    /\ ~irq_pending
    /\ pc = "store"
    /\ pc' = "check"
    /\ ax' = [ax EXCEPT !.pos = gp_tmp + gp_steps]
    /\ UNCHANGED <<stop_pin, irq_pending, gp_steps, gp_tmp, gp_irq, ret, ramp, tvars, uvars, hvars>>

\* tick context: get_pos, lines 776-785
GetPosCheck(hw) ==
    /\ ~irq_pending
    /\ pc = "check"
    /\ pc' = "ret"
    /\ ax' = get_pos_check(ax, stop_pin, hw)
    /\ UNCHANGED <<stop_pin, irq_pending, gp_steps, gp_tmp, gp_irq, ret, ramp, tvars, uvars, hvars>>

\* tick context: get_pos has returned to the host loop
GetPosReturn ==
    /\ ~irq_pending
    /\ pc = "ret"
    /\ pc' = "idle"
    /\ gp_steps' = 0
    /\ gp_tmp' = 0
    /\ gp_irq' = FALSE
    /\ UNCHANGED <<ax, stop_pin, irq_pending, ret, ramp, tvars, uvars, hvars>>

\* tick context: enable(e)
Enable(e, hw) ==
    /\ ~irq_pending
    /\ pc = "idle"
    /\ ax' = enable(ax, e, hw)
    /\ ret' = FALSE
    /\ ramp' = -1
    /\ UNCHANGED <<stop_pin, irq_pending, pc, gp_steps, gp_tmp, gp_irq, tvars, uvars, hvars>>

\* tick context: stop()
Stop ==
    /\ ~irq_pending
    /\ pc = "idle"
    /\ ax' = stop(ax)
    /\ ret' = FALSE
    /\ ramp' = -1
    /\ UNCHANGED <<stop_pin, irq_pending, pc, gp_steps, gp_tmp, gp_irq, tvars, uvars, hvars>>

\* environment: the end-stop switch closes (a falling edge raises the interrupt) or opens
StopPin(v) ==
    /\ v # stop_pin
    /\ stop_pin' = v
    /\ irq_pending' = (irq_pending \/ v = 0)
    /\ UNCHANGED <<ax, pc, gp_steps, gp_tmp, gp_irq, ret, ramp, tvars, uvars, hvars>>

\* interrupt context: _hit_endstop(pin), at any point of the tick context
HitEndstop(hw) ==
    /\ irq_pending
    /\ irq_pending' = FALSE
    /\ ax' = hit_endstop(ax, stop_pin, hw)
    /\ gp_irq' = (gp_irq \/ (pc \in {"load", "store", "check"} /\ stop_pin = 0 /\ ~ax.calibrated))
    /\ ramp' = IF hit_endstop(ax, stop_pin, hw).steps_per_sec = ax.steps_per_sec THEN ramp ELSE -1
    /\ UNCHANGED <<stop_pin, pc, gp_steps, gp_tmp, ret, tvars, uvars, hvars>>

Next ==
    \/ \E sps \in Requests, hw \in DriverOutcomes : Speed(sps, hw)
    \/ \E delta \in Deltas : GetPosBegin(delta)
    \/ GetPosLoad
    \/ GetPosStore
    \/ \E hw \in DriverOutcomes : GetPosCheck(hw)
    \/ GetPosReturn
    \/ \E e \in BOOLEAN, hw \in DriverOutcomes : Enable(e, hw)
    \/ Stop
    \/ \E v \in {0, 1} : StopPin(v)
    \/ \E hw \in DriverOutcomes : HitEndstop(hw)

\* the axis as the program constructs it
Init == \E r \in BOOLEAN : InitAx(r, FALSE)

Spec == Init /\ [][Next]_vars

\* the same axis with the logging lookup resolving
InitLog == \E r \in BOOLEAN : InitAx(r, TRUE)

SpecLog == InitLog /\ [][Next]_vars

\* the timer-driven axis of xystage.py
InitTimer == InitAx(FALSE, FALSE)

SpecT == InitTimer /\ [][NextT]_vars

\* the axis of app.py with a PWM driver that may reject any call; get_pos is
\* left out, it makes no driver call while the axis is not calibrated
NextDrv ==
    \/ \E sps \in Requests, hw \in BOOLEAN : Speed(sps, hw)
    \/ \E e \in BOOLEAN, hw \in BOOLEAN : Enable(e, hw)
    \/ Stop
    \/ \E v \in {0, 1} : StopPin(v)
    \/ \E hw \in BOOLEAN : HitEndstop(hw)

\* both the axis as constructed and the axis whose logging lookup resolves
InitDrv == \E r \in BOOLEAN, s \in BOOLEAN : InitAx(r, s)

SpecDrv == InitDrv /\ [][NextDrv]_vars

----------------------------------------------------------------------------
(* The drive-output app of hexdrive.py driven by its host and its client *)

\* the host constructs the app from the hexpansion EEPROM
HexConstruct(cfg, n_ok, detect) ==
    /\ hx.status = "absent"
    /\ hx' = hex_construct(hx, cfg, n_ok, detect)
    /\ UNCHANGED <<avars, tvars, uvars, xs, ty>>

\* the client calls set_pwm(pwms)
HexSetPwm(pwms, fail) ==
    /\ hx.status = "running"
    /\ hx' = [hex_set_pwm([hx EXCEPT !.raised = FALSE], pwms, fail)
                EXCEPT !.acc = IF hx.pwm_setup_failed THEN hx.acc ELSE 0]
    /\ UNCHANGED <<avars, tvars, uvars, xs, ty>>

\* the host calls background_update(delta)
HexBackgroundUpdate(delta, fail) ==
    /\ hx.status = "running"
    /\ LET b == hex_background_update([hx EXCEPT !.raised = FALSE], delta, fail)
       IN  hx' = [b EXCEPT !.acc = IF ~b.raised /\ ~hx.pwm_setup_failed
                                      /\ hx.acc + delta > hx.keep_alive_period
                                   THEN 0
                                   ELSE Least(hx.acc + delta, KeepAlive + 1)]
    /\ UNCHANGED <<avars, tvars, uvars, xs, ty>>

\* the client calls set_power(state)
HexSetPower(state, detect) ==
    /\ hx.status = "running"
    /\ hx' = hex_set_power([hx EXCEPT !.raised = FALSE], state, detect)
    /\ UNCHANGED <<avars, tvars, uvars, xs, ty>>

\* the client calls set_keep_alive(period)
HexSetKeepAlive(period) ==
    /\ hx.status = "running"
    /\ hx' = hex_set_keep_alive([hx EXCEPT !.raised = FALSE], period)
    /\ UNCHANGED <<avars, tvars, uvars, xs, ty>>

\* the host stops the app: _handle_stop_app calls deinitialise
HexStop(detect) ==
    /\ hx.status = "running"
    /\ hx' = hex_deinitialise([hx EXCEPT !.raised = FALSE], detect)
    /\ UNCHANGED <<avars, tvars, uvars, xs, ty>>

NextHex ==
    \/ \E cfg \in BOOLEAN, n_ok \in {2, 4}, detect \in BOOLEAN : HexConstruct(cfg, n_ok, detect)
    \/ \E pwms \in PwmVectors, fail \in PwmFailures : HexSetPwm(pwms, fail)
    \/ \E delta \in Deltas, fail \in PwmFailures : HexBackgroundUpdate(delta, fail)
    \/ \E state \in {"On", "Off"}, detect \in BOOLEAN : HexSetPower(state, detect)
    \/ \E period \in {1, KeepAlive} : HexSetKeepAlive(period)
    \/ \E detect \in BOOLEAN : HexStop(detect)

\* the app as written, and the app whose set_power finds its power-detect pin
InitHex ==
    /\ InitAxObjects(FALSE, FALSE)
    /\ \E pdp \in BOOLEAN : hx = HexNew(pdp)
    /\ xs = XAppInit
    /\ ty = HStepperAtMidRange

SpecHex == InitHex /\ [][NextHex]_vars

----------------------------------------------------------------------------
(* The Y axis of xystage.py (StepperHex) driven by the host loop, its step  *)
(* timer and its end-stop interrupt                                         *)

\* targets (full steps) and speeds the tick context asks for
YTargets == {-1, 0, YRange, YRange + 1}

YRequests == {-T_DEFAULT_SPEED, 0, T_DEFAULT_SPEED}

YTarget(t) ==
    /\ ty' = h_target([ty EXCEPT !.raised = FALSE], t)
    /\ UNCHANGED <<avars, tvars, uvars, hx, xs>>

YSpeed(sps) ==
    /\ ty' = h_speed([ty EXCEPT !.raised = FALSE], sps)
    /\ UNCHANGED <<avars, tvars, uvars, hx, xs>>

YFreeRun(d) ==
    /\ ty' = h_free_run([ty EXCEPT !.raised = FALSE], d)
    /\ UNCHANGED <<avars, tvars, uvars, hx, xs>>

YTrackTarget ==
    /\ ty' = h_track_target([ty EXCEPT !.raised = FALSE])
    /\ UNCHANGED <<avars, tvars, uvars, hx, xs>>

YEnable(e, ok) ==
    /\ ty' = h_enable([ty EXCEPT !.raised = FALSE], e, ok)
    /\ UNCHANGED <<avars, tvars, uvars, hx, xs>>

\* interrupt context: the end-stop input fell (pinv = 0) or bounced (pinv = 1)
YHitEndstop(pinv) ==
    /\ ty' = h_hit_endstop([ty EXCEPT !.raised = FALSE], pinv)
    /\ UNCHANGED <<avars, tvars, uvars, hx, xs>>

\* interrupt context: the step timer fires
YTimer(too_soon, ok) ==
    /\ ty.timer_is_running
    /\ too_soon => ty.min_period > 0
    /\ h_timer_callback(ty, too_soon, ok).pos \in (0 - 2 * PosCap)..(ty.max_pos + 2 * PosCap)
    /\ ty' = h_timer_callback([ty EXCEPT !.raised = FALSE], too_soon, ok)
    /\ UNCHANGED <<avars, tvars, uvars, hx, xs>>

NextY ==
    \/ \E t \in YTargets : YTarget(t)
    \/ \E sps \in YRequests : YSpeed(sps)
    \/ \E d \in {-1, 0, 1} : YFreeRun(d)
    \/ YTrackTarget
    \/ \E e \in BOOLEAN, ok \in BOOLEAN : YEnable(e, ok)
    \/ \E pinv \in {0, 1} : YHitEndstop(pinv)
    \/ \E too_soon \in BOOLEAN, ok \in BOOLEAN : YTimer(too_soon, ok)

\* the Y axis as the menu handler creates it
SpecY == InitAx(FALSE, FALSE) /\ [][NextY]_vars

----------------------------------------------------------------------------
(* src/app.py  class XYStageApp: main menu, XY-stage screen, idle timeout   *)

\* _timeout_period (ms), scaled to the tick deltas of the model
TimeoutPeriod == 3

\* settings 'min_speed' (10..10000)
min_speed == MaxSps \div 20

\* values of _auto_repeat_level (0 .. _AUTO_REPEAT_LEVEL_MAX) the model follows:
\* speed buttons that round up to the next 100 and to the next 1000
AutoRepeatLevels == {1, 2}

\* buttons of the X axis and of the screen; one button is held during a tick
Buttons == {"none", "right", "left", "confirm", "cancel"}

\* outcomes of Stepper(...): constructed, constructed without its PWM
\* channel, an exception out of the constructor
CtorOutcomes == {"ok", "no_pwm", "raise"}

Max(x, y) == IF x > y THEN x ELSE y

RECURSIVE Pow10(_)
Pow10(l) == IF l = 0 THEN 1 ELSE 10 * Pow10(l - 1)

\* XYStageApp._inc
inc(v, l) == IF l = 0 THEN v + 1 ELSE ((v \div Pow10(l)) + 1) * Pow10(l)

\* XYStageApp._get_speed_from_disance; settings 'max_speed' is the max_sps of the axis
get_speed_from_disance(distance) == Max(min_speed, Least(distance \div 2, MaxSps))

\* Stepper.get_pos as one call
get_pos(a, delta, stopv, hw) ==
    get_pos_check([a EXCEPT !.pos = a.pos + get_pos_steps(a, delta)], stopv, hw)

\* _update_state_xystage, lines 289-327: the speed handed to stepperX.speed();
\* a is the X axis after get_pos, XRange is its max_pos
xystage_request(a, button, level) ==
    LET x == a.pos - (a.max_pos \div 2)
    IN  IF button = "confirm"
        THEN IF x > POSITION_MATCH_TOLERANCE THEN 0 - get_speed_from_disance(Abs(x))
             ELSE IF x < 0 - POSITION_MATCH_TOLERANCE THEN get_speed_from_disance(Abs(x))
             ELSE 0
        ELSE IF button = "right" THEN Max(min_speed, inc(Abs(a.steps_per_sec), 1 + level))
        ELSE IF button = "left" THEN 0 - Max(min_speed, inc(Abs(a.steps_per_sec), 1 + level))
        ELSE 0

\* _update_state_xystage: stepperX.speed() is called on this tick; rep is the
\* result of _auto_repeat_check
xystage_calls_speed(button, rep) == button \in {"confirm", "none", "cancel"} \/ rep

\* _main_menu_select_handler, item XYStage (lines 553-605): ox and oy are the
\* outcomes of the two constructor calls; an exception is caught by the
\* handler, which tries again and gives up after four rounds; range is the
\* XRange setting handed to the X axis as max_pos
AppSelect(ox, oy, range) ==
    /\ app.current_state = "menu"
    /\ pc = "idle"
    /\ ~irq_pending
    /\ LET x == IF app.stepperX = "none"
                THEN IF ox = "raise" THEN "none" ELSE ox
                ELSE app.stepperX
           y == IF x = "none" THEN app.stepperY
                ELSE IF app.stepperY = "none"
                THEN IF oy = "raise" THEN "none" ELSE oy
                ELSE app.stepperY
           a == IF app.stepperX = "none" /\ x = "no_pwm"
                THEN StepperInitNoPwm(TRUE, MaxSps, range, FALSE)
                ELSE IF app.stepperX = "none" /\ x = "ok"
                THEN StepperInit(TRUE, MaxSps, range, FALSE)
                ELSE ax
       IN  IF x = "none" \/ y = "none"
           THEN /\ app' = [app EXCEPT !.stepperX = x, !.stepperY = y,
                                      !.notification = "No Free Timers",
                                      !.raised = FALSE]
                /\ ax' = a
           ELSE /\ app' = [app EXCEPT !.stepperX = x, !.stepperY = y,
                                      !.current_menu = "none",
                                      !.current_state = "xystage",
                                      !.refresh = TRUE,
                                      !.time_since_last_input = 0,
                                      !.idle = 0,
                                      !.raised = FALSE]
                /\ ax' = enable(a, TRUE, TRUE)
    /\ ret' = FALSE
    /\ ramp' = -1
    /\ UNCHANGED <<stop_pin, irq_pending, pc, gp_steps, gp_tmp, gp_irq, tvars, hvars>>

\* the menu item XYStage with the XRange setting of the small stage
AppSelectXYStage(ox, oy) == AppSelect(ox, oy, MaxPos)

\* update(delta) in the XY-stage state: _update_state_xystage (lines 284-370)
\* for the X axis; the Y axis gets no button and stays at rest
AppTick(delta, button, rep, level) ==
    /\ app.current_state = "xystage"
    /\ pc = "idle"
    /\ ~irq_pending
    /\ ax.pos + get_pos_steps(ax, delta) \in (0 - PosCap)..(ax.max_pos + PosCap)
    /\ LET a1 == get_pos(ax, delta, stop_pin, TRUE)
           calls == xystage_calls_speed(button, rep)
           r == xystage_request(a1, button, level)
           a2 == IF calls THEN speed(a1, r, stop_pin, TRUE) ELSE a1
           pressed == button \in {"confirm", "right", "left"}
           refresh == \/ app.refresh
                      \/ button = "confirm"
                      \/ button \in {"right", "left"} /\ rep
                      \/ button \in {"none", "cancel"} /\ speed_ret(a1, 0, stop_pin)
           t == app.time_since_last_input + delta
           idle == IF button = "none" THEN Least(app.idle + delta, TimeoutPeriod + 1) ELSE 0
       IN  IF calls /\ update_timer_raises(a2, Abs(a2.steps_per_sec), TRUE)
           THEN \* speed() raises out of update(): line 298-302, 317, 324 or 326
                /\ ax' = a2
                /\ app' = [app EXCEPT !.raised = TRUE, !.idle = idle]
           ELSE IF pressed
           THEN \* lines 344-345
                /\ ax' = a2
                /\ app' = [app EXCEPT !.refresh = refresh, !.time_since_last_input = 0,
                                      !.idle = idle, !.raised = FALSE]
           ELSE IF button = "cancel"
           THEN \* lines 349-354
                /\ ax' = enable(a2, FALSE, TRUE)
                /\ app' = [app EXCEPT !.refresh = refresh, !.current_state = "menu",
                                      !.idle = idle, !.raised = FALSE]
           ELSE IF refresh \/ app.time_since_last_input = 0
           THEN \* lines 355-357
                /\ ax' = a2
                /\ app' = [app EXCEPT !.refresh = TRUE, !.idle = idle, !.raised = FALSE]
           ELSE IF t > TimeoutPeriod
           THEN \* lines 359-370; stop() raises when the axis has no PWM channel
                IF update_timer_raises(a2, 0, TRUE)
                THEN /\ ax' = stop(a2)
                     /\ app' = [app EXCEPT !.time_since_last_input = t, !.idle = idle,
                                           !.raised = TRUE]
                ELSE /\ ax' = enable(speed(stop(a2), 0, stop_pin, TRUE), FALSE, TRUE)
                     /\ app' = [app EXCEPT !.time_since_last_input = t, !.idle = idle,
                                           !.current_state = "menu",
                                           !.notification = "Timeout",
                                           !.raised = FALSE]
           ELSE /\ ax' = a2
                /\ app' = [app EXCEPT !.time_since_last_input = t, !.idle = idle,
                                      !.raised = FALSE]
    /\ ret' = FALSE
    /\ ramp' = -1
    /\ UNCHANGED <<stop_pin, irq_pending, pc, gp_steps, gp_tmp, gp_irq, tvars, hvars>>

\* set_menu(menu_name), lines 513-546: the old Menu object is cleaned up and
\* the name is stored; a new Menu object is made for "main" and "Settings"
\* only, any other name leaves the old object in self.menu
set_menu(a, menu_name) ==
    [a EXCEPT !.current_menu = menu_name,
              !.menu = IF menu_name = "main" THEN "main"
                       ELSE IF menu_name = "Settings" THEN "settings"
                       ELSE @]

\* update() in STATE_INIT needing a HexDrive: lines 228-239 without line 240
update_init_needs_hexdrive(a, found) ==
    LET b == [a EXCEPT !.hexdrive_port = IF found THEN "port" ELSE "none",
                       !.current_state = IF found THEN "menu" ELSE "warning",
                       !.refresh = TRUE]
    IN  IF found THEN set_menu(b, "main") ELSE b

\* update() in STATE_INIT, lines 228-249; found = scan_ports saw a HexDrive
\* EEPROM; _update_main_application then opens the main menu
update_init(a, found) ==
    set_menu([a EXCEPT !.hexdrive_port = IF found THEN "port" ELSE "none",
                       !.current_state = "menu",
                       !.refresh = TRUE], "main")

\* the first update(delta) after construction
AppFirstUpdate(found) ==
    /\ app.current_state = "init"
    /\ app' = update_init(app, found)
    /\ UNCHANGED <<avars, tvars, hvars>>

\* draw(), lines 419-421
AppDraw ==
    /\ app.refresh
    /\ app' = [app EXCEPT !.refresh = FALSE]
    /\ UNCHANGED <<avars, tvars, hvars>>

\* the host loop calls update(delta) on every tick; the auto-repeat result
\* and level are read only while RIGHT or LEFT is held
AppAnyTick ==
    \/ \E found \in BOOLEAN : AppFirstUpdate(found)
    \/ \E delta \in Deltas, button \in {"none", "confirm", "cancel"} :
           AppTick(delta, button, FALSE, 0)
    \/ \E delta \in Deltas, button \in {"right", "left"} :
           \/ AppTick(delta, button, FALSE, 0)
           \/ \E level \in AutoRepeatLevels : AppTick(delta, button, TRUE, level)

NextApp ==
    \/ \E ox \in CtorOutcomes, oy \in {"ok", "raise"} : AppSelectXYStage(ox, oy)
    \/ AppAnyTick
    \/ AppDraw

\* the app as the host starts it; the X axis is created with reverse = True
InitApp == InitAx(TRUE, FALSE)

\* the host loop never stops calling update()
SpecApp == InitApp /\ [][NextApp]_vars /\ WF_vars(AppAnyTick)

\* update(delta) while the user holds no direction button
AppQuietTick ==
    \E delta \in Deltas, button \in {"none", "cancel"} : AppTick(delta, button, FALSE, 0)

NextBoot ==
    \/ \E found \in BOOLEAN : AppFirstUpdate(found)
    \/ \E ox \in CtorOutcomes, oy \in {"ok", "raise"} : AppSelectXYStage(ox, oy)
    \/ AppQuietTick
    \/ AppDraw

\* the app from its construction on, with a user who only opens and leaves screens
SpecBoot == InitApp /\ [][NextBoot]_vars

\* _main_menu_items, line 81
main_menu_items == <<"XYStage", "Settings", "About", "Exit">>

\* update(delta) in STATE_MENU, lines 251-260: the main menu is opened when
\* no menu is current, otherwise the Menu object is updated
AppMenuUpdate ==
    /\ app.current_state = "menu"
    /\ app' = IF app.current_menu = "none"
              THEN [set_menu(app, "main") EXCEPT !.refresh = TRUE]
              ELSE app
    /\ UNCHANGED <<avars, tvars, hvars>>

\* _main_menu_select_handler, item Settings (lines 606-607)
main_menu_select_settings(a) == set_menu(a, main_menu_items[4])

\* the Menu object calls its select handler with the item Settings
AppSelectSettings ==
    /\ app.current_state = "menu"
    /\ app.menu = "main"
    /\ app' = main_menu_select_settings(app)
    /\ UNCHANGED <<avars, tvars, hvars>>

NextMenu ==
    \/ \E found \in BOOLEAN : AppFirstUpdate(found)
    \/ AppMenuUpdate
    \/ \E ox \in CtorOutcomes, oy \in {"ok", "raise"} : AppSelectXYStage(ox, oy)
    \/ AppSelectSettings
    \/ AppQuietTick
    \/ AppDraw

\* the app from its construction on, with a user who selects menu items and
\* leaves the XY-stage screen again
SpecMenu == InitApp /\ [][NextMenu]_vars

----------------------------------------------------------------------------
(* src/app.py  class MySetting, integer settings *)

\* MySetting._min of the integer settings (lines 105-110)
SetMin == 10

\* MySetting._max, scaled down: above the first multiple of 10^3
SetMax == 1100

\* levels handed to inc and dec: _auto_repeat_level, 0 .. _AUTO_REPEAT_LEVEL_MAX
SetLevels == 0..3

\* MySetting.inc for an int setting, lines 884-892
setting_inc(v, l) ==
    LET w == IF l = 0 THEN v + 1 ELSE ((v \div Pow10(l)) + 1) * Pow10(l)
    IN  IF w > SetMax THEN SetMax ELSE w

\* MySetting.dec for an int setting, lines 908-916
setting_dec(v, l) ==
    LET w == IF l = 0 THEN v - 1
             ELSE (((v + 9 * Pow10(l - 1)) \div Pow10(l)) - 1) * Pow10(l)
    IN  IF w < SetMin THEN SetMin ELSE w

\* _update_state_settings, UP with an accepted repeat: line 379
SettingInc(l) ==
    /\ app.current_state = "settings"
    /\ app' = [app EXCEPT !.edit_setting_value = setting_inc(@, l), !.refresh = TRUE]
    /\ UNCHANGED <<avars, tvars, hvars>>

\* _update_state_settings, DOWN with an accepted repeat: line 385
SettingDec(l) ==
    /\ app.current_state = "settings"
    /\ app' = [app EXCEPT !.edit_setting_value = setting_dec(@, l), !.refresh = TRUE]
    /\ UNCHANGED <<avars, tvars, hvars>>

NextSet ==
    \/ \E l \in SetLevels : SettingInc(l)
    \/ \E l \in SetLevels : SettingDec(l)
    \/ AppDraw

\* the setting-edit state showing any value of the setting's range
InitSet ==
    /\ ax = StepperInit(TRUE, MaxSps, MaxPos, FALSE)
    /\ stop_pin = 1
    /\ irq_pending = FALSE
    /\ pc = "idle"
    /\ gp_steps = 0
    /\ gp_tmp = 0
    /\ gp_irq = FALSE
    /\ ret = FALSE
    /\ ramp = -1
    /\ InitT
    /\ \E v \in SetMin..SetMax :
           app = [AppInit EXCEPT !.current_state = "settings", !.edit_setting_value = v]
    /\ hx = HexNew(FALSE)
    /\ xs = XAppInit
    /\ ty = HStepperAtMidRange

SpecSet == InitSet /\ [][NextSet]_vars

----------------------------------------------------------------------------
(* src/app.py  XYStageApp._auto_repeat_check / _auto_repeat_clear; the same *)
(* text is in src/xystage.py, lines 659-681                                 *)

_AUTO_REPEAT_MS == 200

_AUTO_REPEAT_COUNT_THRES == 10

_AUTO_REPEAT_SPEED_LEVEL_MAX == 4

_AUTO_REPEAT_LEVEL_MAX == 3

\* _auto_repeat_intervals (line 90); the list index i of the source is i + 1 here
auto_repeat_intervals ==
    << _AUTO_REPEAT_MS, _AUTO_REPEAT_MS \div 2, _AUTO_REPEAT_MS \div 4,
       _AUTO_REPEAT_MS \div 8, _AUTO_REPEAT_MS \div 16 >>

\* tick deltas (ms) of the auto-repeat calls: none, a short tick, a tick
\* longer than the longest interval
RepDeltaShort == 60

RepDeltaLong == 250

RepDeltas == {0, RepDeltaShort, RepDeltaLong}

\* the interval list index used by a check: the level, or 0 at fixed rate
auto_repeat_index(a, speed_up) == IF speed_up THEN a.auto_repeat_level ELSE 0

\* _auto_repeat_check: the value returned
auto_repeat_check_ret(a, delta, speed_up) ==
    a.auto_repeat + delta > auto_repeat_intervals[auto_repeat_index(a, speed_up) + 1]

\* _auto_repeat_check raising the level without testing it against its maximum
auto_repeat_check_unbounded(a, delta, speed_up) ==
    LET interval == auto_repeat_intervals[auto_repeat_index(a, speed_up) + 1]
    IN  IF a.auto_repeat + delta > interval
        THEN IF a.auto_repeat_count + 1 > (_AUTO_REPEAT_COUNT_THRES * _AUTO_REPEAT_MS) \div interval
             THEN [a EXCEPT !.auto_repeat = 0, !.auto_repeat_count = 0,
                            !.auto_repeat_level = @ + 1]
             ELSE [a EXCEPT !.auto_repeat = 0, !.auto_repeat_count = @ + 1]
        ELSE [a EXCEPT !.auto_repeat = @ + delta]

\* _auto_repeat_check(delta, speed_up), lines 657-672: the object after the call
auto_repeat_check(a, delta, speed_up) ==
    LET interval == auto_repeat_intervals[auto_repeat_index(a, speed_up) + 1]
        level_max == IF speed_up THEN _AUTO_REPEAT_SPEED_LEVEL_MAX ELSE _AUTO_REPEAT_LEVEL_MAX
    IN  IF a.auto_repeat + delta > interval
        THEN IF a.auto_repeat_count + 1 > (_AUTO_REPEAT_COUNT_THRES * _AUTO_REPEAT_MS) \div interval
             THEN [a EXCEPT !.auto_repeat = 0, !.auto_repeat_count = 0,
                            !.auto_repeat_level = IF @ < level_max THEN @ + 1 ELSE @]
             ELSE [a EXCEPT !.auto_repeat = 0, !.auto_repeat_count = @ + 1]
        ELSE [a EXCEPT !.auto_repeat = @ + delta]

\* _auto_repeat_clear starting the count at the interval itself
auto_repeat_clear_at_interval(a) ==
    [a EXCEPT !.auto_repeat = auto_repeat_intervals[1],
              !.auto_repeat_count = 0,
              !.auto_repeat_level = 0]

\* _auto_repeat_clear, lines 675-679
auto_repeat_clear(a) ==
    [a EXCEPT !.auto_repeat = 1 + auto_repeat_intervals[1],
              !.auto_repeat_count = 0,
              !.auto_repeat_level = 0]

\* a screen calls _auto_repeat_check(delta, speed_up) for a held button
RepCheck(delta, speed_up) ==
    /\ app' = [auto_repeat_check(app, delta, speed_up) EXCEPT
                  !.auto_repeat_ret = auto_repeat_check_ret(app, delta, speed_up),
                  !.rep_last = IF app.rep_last = "clear" THEN "first" ELSE "check",
                  !.rep_speed_up = @ \/ speed_up]
    /\ UNCHANGED <<avars, tvars, hvars>>

\* a screen calls _auto_repeat_clear() on a tick with no repeating button held
RepClear ==
    /\ app' = [auto_repeat_clear(app) EXCEPT !.rep_last = "clear"]
    /\ UNCHANGED <<avars, tvars, hvars>>

NextRep ==
    \/ \E delta \in RepDeltas, speed_up \in BOOLEAN : RepCheck(delta, speed_up)
    \/ RepClear

\* the auto-repeat counters from the construction of the app on, under any
\* sequence of checks and clears; the screens' ticks above take the result
\* and the level of a check as inputs instead
SpecRep == InitApp /\ [][NextRep]_vars

\* settings 'XRange' of a stage whose mid point is further than
\* POSITION_MATCH_TOLERANCE from the start position of the axis
HomeRange == 50

\* jog speeds the user asks for before homing: RIGHT or LEFT with one repeat
HomeJog ==
    /\ ~app.confirm
    /\ \E delta \in Deltas, button \in {"right", "left"}, rep \in BOOLEAN :
           AppTick(delta, button, rep, 1)

\* the button-down event of CONFIRM on the XY-stage screen; the model has no
\* button-up event after it, the button stays held
HomePress ==
    /\ app.current_state = "xystage"
    /\ ~app.confirm
    /\ app' = [app EXCEPT !.confirm = TRUE]
    /\ UNCHANGED <<avars, tvars, hvars>>

\* update(delta) while CONFIRM is held: lines 289-308
HomeTick ==
    /\ app.confirm
    /\ \E delta \in Deltas : AppTick(delta, "confirm", FALSE, 0)

NextHome ==
    \/ \E found \in BOOLEAN : AppFirstUpdate(found)
    \/ AppSelect("ok", "ok", HomeRange)
    \/ HomeJog
    \/ HomePress
    \/ HomeTick
    \/ AppDraw

\* the app on a stage of HomeRange steps; the host loop never stops calling
\* update() and draw()
SpecHome == InitApp /\ [][NextHome]_vars /\ WF_vars(HomeTick) /\ WF_vars(AppDraw)

----------------------------------------------------------------------------
(* src/xystage.py  class XYStageApp: start-up, main menu, XY-stage screen,  *)
(* hexpansion removal                                                       *)

\* XYStageApp._inc
x_inc(v, l) == IF l = 0 THEN v + 1 ELSE ((v \div Pow10(l)) + 1) * Pow10(l)

\* XYStageApp._dec
x_dec(v, l) == IF l = 0 THEN v - 1 ELSE (((v + 9 * Pow10(l - 1)) \div Pow10(l)) - 1) * Pow10(l)

\* values of _auto_repeat_level while a direction button is held
XRepeatLevels == {0, 1}

XButtons == {"none", "right", "left", "up", "down", "cancel"}

\* motor_step / motor_release of the HexDrive app return instead of raising:
\* HexDriveApp defines neither method, and hexdrive_app may be None
HexHasMotorCalls == FALSE

\* _update_state_xystage, lines 307-308, 316-317, 325-326, 334-335: the
\* position the screen computes for the axis the button belongs to
x_screen_value(button, level, xpos, ypos) ==
    IF button = "right" THEN x_inc(xpos, level + 1)
    ELSE IF button = "left" THEN x_dec(xpos, level + 1)
    ELSE IF button = "up" THEN x_inc(ypos, level + 1)
    ELSE IF button = "down" THEN x_dec(ypos, level + 1)
    ELSE 0

\* _update_state_xystage, lines 310, 319, 328, 337: the screen passes that
\* position to target()
x_screen_passes(button, rep, level, xpos, ypos) ==
    LET p == x_screen_value(button, level, xpos, ypos)
    IN  /\ rep
        /\ \/ button = "right" /\ p <= XRange
           \/ button = "left" /\ p >= 0
           \/ button = "up" /\ p >= 0
           \/ button = "down" /\ p <= YRange

\* XYStageApp._main_menu_select_handler, lines 567-572
XStepperAtMidRange ==
    LET a == t_overwrite_pos(TStepperInit(1, T_DEFAULT_SPEED, T_MAX_SPEED, XRange), XRange \div 2)
    IN  t_target(a, t_get_pos(a))

\* update() in STATE_INIT, lines 252-263; found = scan_ports saw a HexDrive
\* EEPROM, running = find_hexdrive_app found its app
XFirstUpdate(found, running) ==
    /\ xs.current_state = "init"
    /\ xs' = IF found
             THEN [xs EXCEPT !.current_state = "menu",
                             !.hexdrive_port = "port",
                             !.hexdrive_app = IF running THEN "app" ELSE "none"]
             ELSE [xs EXCEPT !.current_state = "warning"]
    /\ UNCHANGED <<avars, tvars, uvars, hx, ty>>

\* _main_menu_select_handler, item XYStage (lines 555-605); ox, oy = what the
\* constructors of the X and Y axis do over the timer ids tried
XSelect(ox, oy) ==
    /\ xs.current_state = "menu"
    /\ ~t_irq
    /\ LET x  == IF xs.stepperX = "none" THEN (IF ox = "ok" THEN "made" ELSE "none")
                 ELSE xs.stepperX
           y  == IF x = "none" THEN xs.stepperY
                 ELSE IF xs.stepperY = "none" THEN (IF oy = "ok" THEN "made" ELSE "none")
                 ELSE xs.stepperY
           ax1 == IF xs.stepperX = "none" /\ x = "made" THEN XStepperAtMidRange ELSE tx
           ay1 == IF xs.stepperY = "none" /\ y = "made" THEN HStepperAtMidRange ELSE ty
       IN  IF x = "none" \/ y = "none"
           THEN /\ xs' = [xs EXCEPT !.stepperX = x, !.stepperY = y,
                                    !.notification = "No Free Timers"]
                /\ tx' = ax1
                /\ ty' = ay1
           ELSE /\ xs' = [xs EXCEPT !.stepperX = x, !.stepperY = y,
                                    !.current_state = "xystage",
                                    !.time_since_last_input = 0]
                /\ tx' = t_speed(t_enable(ax1, TRUE), T_DEFAULT_SPEED)
                /\ ty' = h_speed(h_enable(ay1, TRUE, HexHasMotorCalls), T_DEFAULT_SPEED)
    /\ t_last' = "none"
    /\ UNCHANGED <<t_stop_pin, t_irq, avars, uvars, hx>>

\* update(delta) in STATE_XYSTAGE: _update_state_xystage (lines 301-362);
\* rep = _auto_repeat_check fired, level = _auto_repeat_level
XTick(delta, button, rep, level) ==
    /\ xs.current_state = "xystage"
    /\ ~t_irq
    /\ LET p == x_screen_value(button, level, t_get_pos(tx), h_get_pos(ty))
           passes == x_screen_passes(button, rep, level, t_get_pos(tx), h_get_pos(ty))
           t == xs.time_since_last_input + delta
       IN  IF button \in {"right", "left", "up", "down"}
           THEN /\ tx' = IF passes /\ button \in {"right", "left"} THEN t_target(tx, p) ELSE tx
                /\ ty' = IF passes /\ button \in {"up", "down"} THEN h_target(ty, p) ELSE ty
                /\ xs' = [xs EXCEPT !.time_since_last_input = 0]
           ELSE IF button = "cancel"
           THEN /\ tx' = IF xs.hexdrive_app # "none" THEN t_enable(tx, FALSE) ELSE tx
                /\ ty' = IF xs.hexdrive_app # "none"
                         THEN h_enable(ty, FALSE, HexHasMotorCalls) ELSE ty
                /\ xs' = [xs EXCEPT !.current_state = "menu"]
           ELSE IF t > TimeoutPeriod
           THEN /\ tx' = t_enable(t_speed(t_stop(tx), 0), FALSE)
                /\ ty' = h_enable(h_speed(h_stop(ty, HexHasMotorCalls), 0), FALSE, HexHasMotorCalls)
                /\ xs' = [xs EXCEPT !.time_since_last_input = t,
                                      !.current_state = "menu",
                                      !.notification = "Timeout"]
           ELSE /\ tx' = tx
                /\ ty' = ty
                /\ xs' = [xs EXCEPT !.time_since_last_input = t]
    /\ t_last' = "none"
    /\ UNCHANGED <<t_stop_pin, t_irq, avars, uvars, hx>>

\* _handle_hexpansion_removal for the port of the HexDrive, lines 184-192
XRemoval ==
    /\ xs.hexdrive_port = "port"
    /\ xs' = [xs EXCEPT !.hexdrive_port = "none",
                        !.hexdrive_app = "none",
                        !.current_state = "warning",
                        !.notification = "HexDrive Removed"]
    /\ UNCHANGED <<avars, tvars, uvars, hx, ty>>

\* interrupt context: the step timer of the installed X axis fires (the steps
\* of the Y axis are followed in SpecY)
XTimerX(too_soon) == xs.stepperX = "made" /\ TTimer(too_soon)

XAnyTick ==
    \/ \E delta \in Deltas, button \in {"none", "cancel"} : XTick(delta, button, FALSE, 0)
    \/ \E delta \in Deltas, button \in {"right", "left", "up", "down"} :
           \/ XTick(delta, button, FALSE, 0)
           \/ \E level \in XRepeatLevels : XTick(delta, button, TRUE, level)

NextX ==
    \/ \E found \in BOOLEAN, running \in BOOLEAN : XFirstUpdate(found, running)
    \/ \E ox \in {"ok", "raise"}, oy \in {"ok", "raise"} : XSelect(ox, oy)
    \/ XAnyTick
    \/ XRemoval
    \/ \E too_soon \in BOOLEAN : XTimerX(too_soon)

\* the app of xystage.py as the host starts it
SpecX == InitAx(FALSE, FALSE) /\ [][NextX]_vars

----------------------------------------------------------------------------
(* Properties of the PWM-driven axis (src/app.py) *)

Min(x, y) == IF x < y THEN x ELSE y

\* a step of the tick context that is the call speed(r)
SpeedStep(r) == \E hw \in DriverOutcomes : Speed(r, hw)

\* speed(r) finds the axis at a limit for the direction of the request r:
\* the end-stop input is active or the calibrated position is at or beyond the limit
ForcedStop(r) ==
    \/ r > 0 /\ ax.calibrated /\ ax.pos >= ax.max_pos
    \/ r <= 0 /\ (stop_pin = 0 \/ (ax.calibrated /\ ax.pos <= 0))

\* C1 as stated: a single speed() call never changes _steps_per_sec by more
\* than _max_sps_change, in any reachable state and for any request.
C1_SpeedStepWithinAccel ==
    [][\A r \in Requests :
          SpeedStep(r) => Abs(ax'.steps_per_sec - ax.steps_per_sec) <= ax.max_sps_change]_vars

\* C1 amended: a single speed() call changes _steps_per_sec by at most
\* _max_sps_change, except when the call forces the speed to 0 because the axis
\* is at a limit for the requested direction.
C1_SpeedStepWithinAccelUnlessForced ==
    [][\A r \in Requests :
          (SpeedStep(r) /\ ~ForcedStop(r))
              => Abs(ax'.steps_per_sec - ax.steps_per_sec) <= ax.max_sps_change]_vars

\* C1 witness: the last call was speed(), its acceleration limiter acted, and
\* the axis is two acceleration steps away from rest
C1_Witness == ret /\ Abs(ax.steps_per_sec) = 2 * ax.max_sps_change

\* C6: in every reachable state the magnitude of the commanded speed is at
\* most the maximum speed, |_steps_per_sec| <= _max_sps.
C6_SpeedWithinMax == Abs(ax.steps_per_sec) <= ax.max_sps

\* C6 witness: the axis runs at full speed toward the end stop
C6_Witness == ax.steps_per_sec = -ax.max_sps

\* C6 for the timer-driven axis of xystage.py (specification SpecT)
C6_TimerAxisSpeedWithinMax == Abs(tx.steps_per_sec) <= tx.max_sps

\* C7: from rest and away from a limit, after the k-th consecutive call of
\* speed(max_sps) the commanded speed is min(k * _max_sps_change, _max_sps).
C7_RampToMaxSpeed ==
    ramp >= 1 => ax.steps_per_sec = Min(ramp * ax.max_sps_change, ax.max_sps)

\* C7 witness: the eleventh call in a row holds the speed at the maximum
C7_Witness == ramp = 11 /\ ax.steps_per_sec = ax.max_sps

\* C8 as stated: away from a limit, speed(r) returns true whenever the stored
\* speed differs from the request (clamped by the max-speed limit or by the
\* acceleration limit) and false whenever the request was applied unchanged.
C8_ReturnsTrueIffClamped ==
    [][\A r \in Requests :
          (SpeedStep(r) /\ ~ForcedStop(r)) => (ret' <=> ax'.steps_per_sec # r)]_vars

\* C8 amended: speed(r) returns true exactly when the acceleration limiter
\* set the stored speed: the axis is not at a limit for the request and the
\* request, brought into [-_max_sps, _max_sps], is more than _max_sps_change
\* away from the previous speed; the stored speed is then one acceleration
\* step from the previous one.  Otherwise it returns false, and the stored
\* speed is 0 at a limit and else the request brought into [-_max_sps, _max_sps].
C8_ReturnsTrueIffAccelLimited ==
    [][\A r \in Requests :
          SpeedStep(r) =>
              LET want == IF r > ax.max_sps THEN ax.max_sps
                          ELSE IF r < -ax.max_sps THEN -ax.max_sps ELSE r
              IN  /\ ret' <=> (~ForcedStop(r) /\ Abs(want - ax.steps_per_sec) > ax.max_sps_change)
                  /\ ret' => Abs(ax'.steps_per_sec - ax.steps_per_sec) = ax.max_sps_change
                  /\ ~ret' => ax'.steps_per_sec = IF ForcedStop(r) THEN 0 ELSE want]_vars

\* C8 witness: speed() returned true after limiting a request toward the end
\* stop to one acceleration step from rest
C8_Witness == ret /\ ax.steps_per_sec = -ax.max_sps_change

\* a step of the tick context (host loop): speed, get_pos, enable, stop
TickStep ==
    \/ \E r \in Requests : SpeedStep(r)
    \/ \E delta \in Deltas : GetPosBegin(delta)
    \/ GetPosLoad
    \/ GetPosStore
    \/ \E hw \in DriverOutcomes : GetPosCheck(hw)
    \/ GetPosReturn
    \/ \E e \in BOOLEAN, hw \in DriverOutcomes : Enable(e, hw)
    \/ Stop

\* a step of the interrupt context: the end-stop handler
IrqStep == \E hw \in DriverOutcomes : HitEndstop(hw)

\* C4: a calibrating end-stop trigger that interrupts get_pos is never lost:
\* when that get_pos returns the axis is calibrated and its position is 0 plus
\* at most the steps integrated by that one call, never a value derived from
\* the position held before the calibration.
C4_TriggerDuringGetPosNotLost ==
    (pc = "ret" /\ gp_irq)
        => /\ ax.calibrated
           /\ ax.pos >= Min(0, gp_steps)
           /\ ax.pos <= -Min(0, -gp_steps)

\* C5: no axis field is written from both contexts: the tick context never
\* writes position or calibrated, and the end-stop handler never writes the
\* commanded speed (it does not call speed(), which also sets the free-run
\* direction and the step clock).
C5_SingleWriterPerField ==
    [][/\ TickStep => (ax'.pos = ax.pos /\ ax'.calibrated = ax.calibrated)
       /\ IrqStep => /\ ax'.steps_per_sec = ax.steps_per_sec
                     /\ ax'.free_run_mode = ax.free_run_mode
                     /\ ax'.freq = ax.freq]_vars

\* the calibrated axis is at a position limit in its direction of travel
AtLimitInTravel ==
    /\ ax.calibrated
    /\ \/ ax.pos >= ax.max_pos /\ ax.steps_per_sec > 0
       \/ ax.pos <= 0 /\ ax.steps_per_sec < 0

----------------------------------------------------------------------------
(* Properties of the timer-driven axis (src/xystage.py) *)

\* C2: once the axis is calibrated its position is within [0, max_pos] in
\* every state reached by step-clock steps and end-stop triggers.
C2_CalibratedPositionInRange ==
    tx.calibrated => (tx.pos >= 0 /\ tx.pos <= tx.max_pos)

\* the step clock is moving the axis toward the end stop
TowardStop ==
    /\ tx.timer_is_running
    /\ \/ tx.cb = "rev" /\ tx.free_run_mode < 0
       \/ tx.cb = "track" /\ tx.free_run_mode = 0 /\ tx.target_pos < tx.pos

\* C3: when the end-stop handler runs on an uncalibrated axis that is moving
\* toward the stop, free-running or tracking, then after the handler
\* calibrated is true, position is 0 and the commanded speed is 0.
C3_EndstopCalibratesAtZero ==
    [][(THitEndstop /\ t_stop_pin = 0 /\ ~tx.calibrated /\ TowardStop)
        => (tx'.calibrated /\ tx'.pos = 0 /\ tx'.steps_per_sec = 0)]_vars

\* C11: once the calibrated flag of an axis is true it stays true in every
\* later state, whatever operation runs on the axis.
C11_CalibratedStaysTrue == [][tx.calibrated => tx'.calibrated]_vars

\* C11 witness: the axis was calibrated, the switch has opened again and the
\* step clock has moved the axis away from the origin
C11_Witness == tx.calibrated /\ t_stop_pin = 1 /\ tx.pos > 0 /\ tx.timer_is_running

\* C11 for the PWM-driven axis of app.py
C11_PwmAxisCalibratedStaysTrue == [][ax.calibrated => ax'.calibrated]_vars

\* C12: after calibration, an end-stop trigger received while the axis moves
\* toward the stop sets the commanded speed to 0 and leaves the position
\* unchanged (no re-zeroing).
C12_ConfirmingTriggerKeepsPosition ==
    [][(THitEndstop /\ t_hit_case(tx, t_stop_pin) = "toward")
        => (tx'.steps_per_sec = 0 /\ tx'.pos = tx.pos)]_vars

\* C13: after calibration, an end-stop trigger received while the axis moves
\* away from the stop changes none of position, calibrated, commanded speed,
\* target, free-run direction and step-clock state.
C13_SpuriousTriggerChangesNothing ==
    [][(THitEndstop /\ t_hit_case(tx, t_stop_pin) = "away") => tx' = tx]_vars

\* C13 witness: the handler has just run on a calibrated axis moving away
\* from the stop
C13_Witness == t_last = "away"

\* C12 for the PWM-driven axis of app.py
C12_PwmAxisConfirmingTriggerKeepsPosition ==
    [][(IrqStep /\ stop_pin = 0 /\ ax.calibrated /\ ax.steps_per_sec < 0)
        => (ax'.steps_per_sec = 0 /\ ax'.pos = ax.pos)]_vars

\* C13 for the PWM-driven axis of app.py
C13_PwmAxisSpuriousTriggerChangesNothing ==
    [][(IrqStep /\ stop_pin = 0 /\ ax.calibrated /\ ax.steps_per_sec > 0)
        => ax' = ax]_vars

\* enable(e) called from the tick
EnableStep(e) == \E hw \in DriverOutcomes : Enable(e, hw)

\* C14: enable(False) halts the step clock and brings the commanded speed
\* toward 0 by at most maxAcceleration; the commanded speed does not stay at
\* its non-zero value of before the call.
C14_DisableBringsSpeedDown ==
    [][(EnableStep(FALSE) /\ ax.steps_per_sec # 0)
        => /\ ax'.freq = 0
           /\ Abs(ax'.steps_per_sec) < Abs(ax.steps_per_sec)
           /\ Abs(ax.steps_per_sec - ax'.steps_per_sec) <= ax.max_sps_change]_vars

\* C14, second half: enable(True) on a disabled axis does not restart the
\* step clock at the speed commanded before the axis was disabled
C14_ReenableDoesNotRestartAtOldSpeed ==
    [][(EnableStep(TRUE) /\ ~ax.enabled /\ ax.freq = 0 /\ ax.steps_per_sec # 0)
        => ax'.freq # Abs(ax.steps_per_sec)]_vars

\* C15: while an axis is disabled its step clock is stopped and the driver is
\* de-energized, in every state.
C15_DisabledAxisIsQuiet ==
    ~tx.enabled => (~tx.timer_is_running /\ tx.x_en = 1)

\* C15, second half: speed() on a disabled axis does not start the step clock
C15_SpeedOnDisabledAxisStartsNothing ==
    [][((\E r \in TRequests : TSpeed(r)) /\ ~tx.enabled /\ ~tx.timer_is_running)
        => ~tx'.timer_is_running]_vars

\* C15 for the PWM-driven axis of app.py
C15_PwmAxisDisabledIsQuiet ==
    ~ax.enabled => (ax.en = 1 /\ ax.pwm_duty = 0)

\* C15, second half, for the PWM-driven axis of app.py
C15_PwmAxisSpeedOnDisabledAxisStartsNothing ==
    [][((\E r \in Requests : SpeedStep(r)) /\ ~ax.enabled /\ ax.en = 1)
        => (ax'.en = 1 /\ ax'.freq = ax.freq)]_vars

\* a step-clock callback in tracking mode
TrackingCallback == tx.cb = "track" /\ \E ts \in BOOLEAN : TTimer(ts)

\* the callback moved the position by exactly one step toward the target
MovedOneStepTowardTarget ==
    /\ tx'.pos = IF tx.target_pos > tx.pos THEN tx.pos + tx.step_size ELSE tx.pos - tx.step_size
    /\ Abs(tx.target_pos - tx'.pos) <= Abs(tx.target_pos - tx.pos)

\* C17: in tracking mode every step-clock callback moves the position by
\* exactly one step toward the target when they differ, and leaves the
\* position unchanged and de-energizes the driver when they are equal; the
\* distance to the target never increases across a callback.
C17_EveryCallbackStepsTowardTarget ==
    [][TrackingCallback
        => IF tx.target_pos # tx.pos
           THEN MovedOneStepTowardTarget
           ELSE tx'.pos = tx.pos /\ tx'.x_en = 1]_vars

\* C17 amended: a tracking callback at the target leaves the position and
\* de-energizes the driver; one that comes sooner than the minimum step
\* period changes nothing; one whose step stays inside the software end
\* stops moves the position by exactly one step toward the target without
\* increasing the distance; one whose step leaves them puts the position on
\* the end stop and commands speed 0.
C17_UnsuppressedCallbackStepsTowardTarget ==
    [][\A ts \in BOOLEAN :
         (tx.cb = "track" /\ TTimer(ts))
            => CASE t_cb_case(tx, ts) = "at target"  -> tx'.pos = tx.pos /\ tx'.x_en = 1
                 [] t_cb_case(tx, ts) = "suppressed" -> tx' = tx
                 [] t_cb_case(tx, ts) = "stepped"    -> MovedOneStepTowardTarget /\ tx'.x_en = 0
                 [] t_cb_case(tx, ts) = "clamped"    -> tx'.pos \in {0, tx.max_pos} /\ tx'.steps_per_sec = 0
                 [] OTHER                            -> FALSE]_vars

\* C17 witness: a tracking callback has just moved the axis by a full step
C17_Witness == t_last = "stepped" /\ tx.step_size = 2 /\ tx.pos # tx.target_pos

\* C18: no operation of the axis (speed, get_pos, enable, stop, end-stop
\* handler) raises an exception that it does not handle itself.
C18_NoUnhandledException ==
    [][/\ IrqStep => ~hit_endstop_raises(ax, stop_pin)
       /\ (\E hw \in DriverOutcomes : GetPosCheck(hw)) => ~get_pos_raises(ax)]_vars

----------------------------------------------------------------------------
(* Properties of the app (src/app.py XYStageApp) *)

\* C16: in the XY-stage screen, once no button has been pressed for more than
\* the timeout period of tick time, the app eventually leaves the XY-stage
\* state for the menu state (stopping and disabling both axes on the way),
\* unless a button is pressed again first.
C16_IdleTimeoutLeavesXYStage ==
    (app.current_state = "xystage" /\ app.idle > TimeoutPeriod)
        ~> (app.current_state = "menu" \/ app.idle = 0)

\* C16 as a bound: the XY-stage screen is never idle for longer than the
\* timeout period
C16_IdleNeverExceedsTimeout ==
    app.current_state = "xystage" => app.idle <= TimeoutPeriod

\* C19: when the PWM channel cannot be acquired during construction, no
\* partially initialised Stepper is installed and the app does not enter the
\* XY-stage state.
C19_NoPartialAxisInstalled ==
    /\ app.stepperX # "no_pwm"
    /\ app.current_state = "xystage" => (app.stepperX = "ok" /\ ax.has_pwm)

\* C19 consequence: no update() of the XY-stage screen ends in an exception
C19_TickDoesNotRaise == ~app.raised

----------------------------------------------------------------------------
(* Properties of the PWM driver calls (src/app.py Stepper._update_timer) *)

\* speed(r) reached the PWM driver and the driver rejected the call
SpeedRejected(r) ==
    /\ Speed(r, FALSE)
    /\ update_timer_calls_driver(speed_before_update(ax, r, stop_pin),
                                 Abs(speed_sps(ax, r, stop_pin)))

\* C20: when the PWM driver rejects the update made by speed(), the failure
\* is caught (speed() returns), the commanded speed is kept and the recorded
\* frequency is not advanced, so that the next speed() call tries again.
C20_DriverFailureIsCaught ==
    [][\A r \in Requests :
         SpeedRejected(r)
            => /\ ~speed_raises(ax, r, stop_pin, FALSE)
               /\ ax'.steps_per_sec = speed_sps(ax, r, stop_pin)
               /\ ax'.freq = ax.freq]_vars

\* C20 for a non-zero speed, whose driver calls are inside the try
C20_NonZeroDriverFailureIsRetried ==
    [][\A r \in Requests :
         (SpeedRejected(r) /\ speed_sps(ax, r, stop_pin) # 0)
            => /\ ~speed_raises(ax, r, stop_pin, FALSE)
               /\ ax'.steps_per_sec = speed_sps(ax, r, stop_pin)
               /\ ax'.freq = ax.freq
               /\ update_timer_calls_driver(ax', Abs(ax'.steps_per_sec))]_vars

----------------------------------------------------------------------------
(* Properties of the drive-output app (src/hexdrive.py) *)

\* a background_update on a successfully initialised app
BackgroundStep(delta) == \E fail \in PwmFailures : HexBackgroundUpdate(delta, fail)

C21_KeepAliveTimeoutAfterSetPwm ==
    [][\A delta \in Deltas :
         (/\ HexBackgroundUpdate(delta, 0)
          /\ ~hx.pwm_setup_failed
          /\ hx.has_time_since_last_update
          /\ hx.pwm_allocated
          /\ hx.acc + delta > hx.keep_alive_period)
            => (hx'.duty = AllOff /\ ~hx'.outputs_energised /\ ~hx'.raised)]_vars

----------------------------------------------------------------------------
(* Properties of the application start-up (src/app.py XYStageApp) *)

\* C22: a fresh XYStageApp is in STATE_INIT with no stepper allocated, and its
\* first update() moves it to STATE_MENU whether or not scan_ports found a
\* HexDrive hexpansion.
C22_FirstUpdateOpensMenu ==
    /\ (app.current_state = "init" /\ app.stepperX = "none" /\ app.stepperY = "none")
    /\ [][(app.current_state = "init" => app.stepperX = "none" /\ app.stepperY = "none")
           /\ \A found \in BOOLEAN :
                 AppFirstUpdate(found) => (/\ app'.current_state = "menu"
                                           /\ app'.stepperX = "none"
                                           /\ app'.stepperY = "none")]_vars

\* the first update() has run with no HexDrive detected and the menu is showing
C22_Witness ==
    /\ app.current_state = "menu"
    /\ app.hexdrive_port = "none"
    /\ app.stepperX = "none"
    /\ app.refresh

----------------------------------------------------------------------------
(* Properties of the free-running axis outputs (src/app.py Stepper) *)

Sign(x) == IF x > 0 THEN 1 ELSE IF x < 0 THEN -1 ELSE 0

\* the direction the driver is told to turn: +1 is the level _update_timer
\* writes to DIR for _free_run_mode > 0
DirSign(a) == IF a.dir = (IF a.reverse THEN 1 ELSE 0) THEN 1 ELSE -1

\* the driver is enabled and receives step pulses at a frequency speed() set
StepClockRunning(a) == a.pwm_duty > 0 /\ a.en = 0 /\ a.freq > 0

----------------------------------------------------------------------------
(* Properties of the HexDrive-stepped axis (src/xystage.py StepperHex) *)

\* C30: the tracked position changes only when the actuator accepted the step
\* command: a step whose motor_step call fails leaves the position unchanged.
C30_FailedStepKeepsPosition ==
    [][\A too_soon \in BOOLEAN : YTimer(too_soon, FALSE) => ty'.pos = ty.pos]_vars

----------------------------------------------------------------------------
(* Properties of the XY-stage screen of xystage.py *)

\* C26: whenever the app is in a state other than STATE_XYSTAGE the step
\* clocks of both axes are stopped: every step that leaves STATE_XYSTAGE
\* (CANCEL, idle timeout, hexpansion removal) leaves both clocks stopped.
C26_LeavingXYStageStopsClocks ==
    [][(xs.current_state = "xystage" /\ xs'.current_state # "xystage")
         => (~tx'.timer_is_running /\ ~ty'.timer_is_running)]_vars

\* C26 for the idle timeout alone
C26_TimeoutStopsClocks ==
    [][(xs.current_state = "xystage" /\ xs'.notification = "Timeout"
          /\ xs.notification # "Timeout")
         => (~tx'.timer_is_running /\ ~ty'.timer_is_running)]_vars

\* C29: the XY-stage screen never passes a target outside [0, XRange] to the
\* X axis or outside [0, YRange] to the Y axis.
C29_ScreenTargetsInRange ==
    [][\A delta \in Deltas, button \in XButtons, level \in XRepeatLevels :
         (/\ XTick(delta, button, TRUE, level)
          /\ x_screen_passes(button, TRUE, level, t_get_pos(tx), h_get_pos(ty)))
            => LET p == x_screen_value(button, level, t_get_pos(tx), h_get_pos(ty))
               IN  /\ button \in {"right", "left"} => p \in 0..XRange
                   /\ button \in {"up", "down"} => p \in 0..YRange]_vars

\* C29 for the X axis alone
C29_ScreenTargetsInRangeX ==
    [][\A delta \in Deltas, button \in {"right", "left"}, level \in XRepeatLevels :
         (/\ XTick(delta, button, TRUE, level)
          /\ x_screen_passes(button, TRUE, level, t_get_pos(tx), h_get_pos(ty)))
            => x_screen_value(button, level, t_get_pos(tx), h_get_pos(ty)) \in 0..XRange]_vars

----------------------------------------------------------------------------
(* Properties of the tracking axis (src/xystage.py Stepper) and of the      *)
(* position estimate of the free-running axis (src/app.py Stepper)          *)

\* the target lies inside [0, maxPosition]
TargetInRange(a) == a.target_pos \in 0..a.max_pos

\* an end-stop handler or a step-clock callback of the tracking axis
TrackingInterrupt ==
    /\ tx.free_run_mode = 0
    /\ tx.timer_is_running
    /\ tx.cb = "track"
    /\ THitEndstop \/ \E too_soon \in BOOLEAN : TTimer(too_soon)

\* C27: with a target inside [0, maxPosition] and no further input the
\* position eventually equals the target under a fair step clock, whatever
\* happened before: no end-stop trigger and no software-limit stop leaves the
\* step clock stopped while the position still differs from the target.
C27_TrackingKeepsClockUntilTarget ==
    [][(TrackingInterrupt /\ TargetInRange(tx') /\ tx'.pos # tx'.target_pos)
         => tx'.timer_is_running]_vars

\* C27 for the step-clock callbacks alone (software-limit stops included)
C27_CallbackKeepsClockUntilTarget ==
    [][(/\ tx.free_run_mode = 0
        /\ tx.cb = "track"
        /\ \E too_soon \in BOOLEAN : TTimer(too_soon)
        /\ TargetInRange(tx') /\ tx'.pos # tx'.target_pos)
         => tx'.timer_is_running]_vars

\* C28: the position integration of get_pos is direction-symmetric: on an
\* uncalibrated axis the steps added for a delta at speed s cancel the steps
\* added for the same delta at speed -s, so +s then -s over the same deltas
\* returns to the start.
C28_IntegrationIsDirectionSymmetric ==
    [][\A delta \in Deltas :
         (GetPosBegin(delta) /\ ~ax.calibrated)
            => gp_steps' + get_pos_steps([ax EXCEPT !.steps_per_sec = 0 - @], delta) = 0]_vars

----------------------------------------------------------------------------
(* C31 *)

\* the X axis of app.py is at rest with its displayed coordinate
\* (position minus half the range) within POSITION_MATCH_TOLERANCE of 0
HomeRest ==
    /\ ax.steps_per_sec = 0
    /\ Abs(ax.pos - (ax.max_pos \div 2)) <= POSITION_MATCH_TOLERANCE

\* C31: while CONFIRM is held on the XY-stage screen the axis eventually is
\* at rest within POSITION_MATCH_TOLERANCE of coordinate 0 and stays there
C31_ConfirmHomesAxis == <>[](app.confirm => HomeRest)

\* C31, the part that holds: an axis at rest at coordinate 0 stays there on
\* every further tick with CONFIRM held
C31_HomedAxisStays == [][(app.confirm /\ HomeRest /\ HomeTick) => HomeRest']_vars

----------------------------------------------------------------------------
(* C32 *)

\* C32: selecting the item Settings of the main menu opens the settings menu
\* (the menu whose select handler can enter the setting-edit state)
C32_SettingsItemOpensSettingsMenu ==
    [][AppSelectSettings => (app'.current_menu = "Settings" /\ app'.menu = "settings")]_vars

\* C32, what the item does instead: the name "Exit" is current and the Menu
\* object is still the main menu
C32_SettingsItemKeepsMainMenu ==
    [][AppSelectSettings => (app'.current_menu = "Exit" /\ app'.menu = "main")]_vars

----------------------------------------------------------------------------
(* C33 *)

\* the largest multiple of d strictly below v
NextLowerMultiple(v, d) == ((v - 1) \div d) * d

\* the smallest multiple of d strictly above v
NextHigherMultiple(v, d) == ((v \div d) + 1) * d

\* C33, dec: for every level 1..3 dec gives the largest multiple of 10^l
\* strictly below the value, clamped to the minimum
C33_DecGivesNextLowerMultiple ==
    [][\A l \in 1..3 :
         SettingDec(l) =>
            app'.edit_setting_value =
               Max(SetMin, NextLowerMultiple(app.edit_setting_value, Pow10(l)))]_vars

\* C33, inc: for every level 1..3 inc gives the smallest multiple of 10^l
\* strictly above the value, clamped to the maximum
C33_IncGivesNextHigherMultiple ==
    [][\A l \in 1..3 :
         SettingInc(l) =>
            app'.edit_setting_value =
               Least(SetMax, NextHigherMultiple(app.edit_setting_value, Pow10(l)))]_vars

\* C33, dec at level 1 alone
C33_DecLevelOneGivesNextLowerMultiple ==
    [][SettingDec(1) =>
          app'.edit_setting_value =
             Max(SetMin, NextLowerMultiple(app.edit_setting_value, 10))]_vars

----------------------------------------------------------------------------
(* C34 *)

\* C34: the first _auto_repeat_check after _auto_repeat_clear returns true
\* for every tick delta and both repeat modes, and restarts the interval
C34_FirstCheckAfterClearAccepts ==
    [][\A delta \in RepDeltas, speed_up \in BOOLEAN :
         (app.rep_last = "clear" /\ RepCheck(delta, speed_up))
            => (app'.auto_repeat_ret /\ app'.auto_repeat = 0)]_vars

\* the first check after a clear has returned true and restarted the interval
C34_Witness ==
    /\ app.rep_last = "first"
    /\ app.auto_repeat_ret
    /\ app.auto_repeat = 0
    /\ app.auto_repeat_count = 1

----------------------------------------------------------------------------
(* C35 *)

\* C35: the level stays within 0 .. _AUTO_REPEAT_SPEED_LEVEL_MAX and indexes
\* an entry of the interval list (list index = level); while only fixed-rate
\* checks have been made it is at most _AUTO_REPEAT_LEVEL_MAX
C35_LevelWithinTable ==
    /\ app.auto_repeat_level \in 0.._AUTO_REPEAT_SPEED_LEVEL_MAX
    /\ app.auto_repeat_level + 1 \in DOMAIN auto_repeat_intervals
    /\ ~app.rep_speed_up => app.auto_repeat_level <= _AUTO_REPEAT_LEVEL_MAX

\* the speed-up level is at its maximum and a further count has run out there
C35_Witness ==
    /\ app.auto_repeat_level = _AUTO_REPEAT_SPEED_LEVEL_MAX
    /\ app.rep_last = "check"
    /\ app.auto_repeat_ret
    /\ app.auto_repeat_count = 0

\* the fixed-rate level is at its maximum and a further count has run out there
C35_WitnessFixedRate ==
    /\ ~app.rep_speed_up
    /\ app.auto_repeat_level = _AUTO_REPEAT_LEVEL_MAX
    /\ app.rep_last = "check"
    /\ app.auto_repeat_ret
    /\ app.auto_repeat_count = 0

----------------------------------------------------------------------------
(* C36 *)

\* set_pwm(pwms) returns False: PWM setup had failed, or the driver rejects
\* the new duty of an output
SetPwmReturnsFalse(pwms, fail) ==
    /\ HexSetPwm(pwms, fail)
    /\ hx.pwm_setup_failed \/ hx.pwm_allocated
    /\ ~hex_set_pwm_ret(hx, pwms, fail)

C36_RefusedSetPwmChangesNothing ==
    [][\A pwms \in PwmVectors, fail \in PwmFailures :
         (HexSetPwm(pwms, fail) /\ hx.pwm_setup_failed)
            => hx' = [hx EXCEPT !.raised = FALSE]]_vars

====
